---- MODULE Spec2Model ----
(***************************************************************************)
(* Outreach pipeline: lead ledger, event log, idempotency store, the       *)
(* BullMQ work queues and the stage handlers (Scrape, Enrich, Site,        *)
(* Image, Deploy, Email, Call), the call webhook and lead regeneration.    *)
(*                                                                         *)
(* The Email and Call handlers are modelled one awaited operation per      *)
(* step (several invocations may be in flight); the other handlers, whose  *)
(* writes do not depend on what they read, take one step per invocation.   *)
(***************************************************************************)
EXTENDS Integers, Sequences, FiniteSets, Bags, TLC

\* ------------------------------------------------------------- bounds
MaxLeads == 1         \* rows the Lead table can hold
MaxInflight == 2      \* Email/Call invocations in flight at once
MaxDisturb == 2       \* regeneration requests, webhooks, duplicate
                      \* deliveries and throwing operations, in total
MaxLimit == 27        \* largest campaign limit of the Scrape runs
MaxFound == 2         \* listings a web search yields
LiveLeads == 2        \* largest campaign limit of the undisturbed runs
MaxBatch == 3         \* largest campaign limit of the Scrape runs with faults

\* -------------------------------------------------- program constants
attempts == 3         \* defaultJobOptions.attempts
maxCallAttempts == 2  \* processCallJob: lead.callAttempts >= 2
minLimit == 1         \* campaignCommandSchema: limit is at least 1
mockMaxListings == 25 \* mockListingsProvider: at most 25 listings
searchMaxListings == 100
                      \* duckDuckGoListingsProvider: at most 100 listings

Steps == {1, 2}

StatusOrder ==
  <<"NEW", "SCRAPED", "ENRICHED", "SITE_GENERATED", "IMAGES_READY",
    "DEPLOYED", "EMAILED_1", "CALLED_1", "REPLIED", "BOOKED">>

\* Position of a status in the forward order; DO_NOT_CONTACT has none (0).
Rank(s) ==
  IF \E i \in 1..Len(StatusOrder) : StatusOrder[i] = s
  THEN CHOOSE i \in 1..Len(StatusOrder) : StatusOrder[i] = s
  ELSE 0

VARIABLES
  campaign,       \* campaign row: status and limit
  leads,          \* lead ledger: LeadIds -> lead row
  events,         \* event log: entity (0: campaign, lead id) -> type -> Seq
  idem,           \* idempotency store: key -> row
  queue,          \* bag of waiting jobs, all seven queues
  failed,         \* bag of jobs that failed their last attempt (retained)
  active,         \* bag of Email/Call invocations in flight
  runCalls,       \* key -> times run() was called by runIdempotentStage
  providerCalls,  \* key -> successful sendEmail / placeCall invocations
  done,           \* key -> result that runIdempotentStage returned with
                  \* executed: true (0: it has not)
  used,           \* budgets spent: regens, webhooks, redeliveries, faults
  reply           \* what the latest call webhook request was answered

vars ==
  <<campaign, leads, events, idem, queue, failed, active, runCalls,
    providerCalls, done, used, reply>>

\* The ids of the Lead table's rows, used (exists) or not yet.
LeadIds == DOMAIN leads

\* --------------------------------------------------------------- data

\* Lead table row; a row with exists = FALSE is an id not yet created.
NoLead ==
  [exists |-> FALSE, url |-> 0, status |-> "NEW", doNotContact |-> FALSE,
   emailSentCount |-> 0, callAttempts |-> 0, demoUrl |-> FALSE,
   email |-> FALSE, phone |-> FALSE, lastError |-> "null"]

EventTypes ==
  {"CAMPAIGN_CREATED", "LEAD_SCRAPED", "LEAD_ENRICHED", "SITE_GENERATED",
   "IMAGES_READY", "DEPLOYED", "EMAIL_SENT", "CALL_PLACED", "CALL_RESULT"}

\* The Event table, kept per entity and type in the order of creation
\* (every query of the code filters by lead or campaign and by type):
\* event.create appends a row with the metadata fields a and b.
NoEvents == [t \in EventTypes |-> <<>>]

\* A variant of event.create that keeps only the newest row of a type.
EventOverwrites(ev, e, type, a, b) ==
  [ev EXCEPT ![e][type] = <<[a |-> a, b |-> b]>>]

Event(ev, e, type, a, b) ==
  [ev EXCEPT ![e][type] = Append(@, [a |-> a, b |-> b])]

Keys == [stage : {"email", "call"}, lead : LeadIds, n : Steps]

\* IdempotencyKey row: present, and its result column ({value: r} or NULL).
NoRow == [present |-> FALSE, hasValue |-> FALSE, value |-> 0]
ClaimRow == [present |-> TRUE, hasValue |-> FALSE, value |-> 0]
\* A variant of the result update that stores nothing.
ResultRowWithoutValue(r) == ClaimRow

ResultRow(r) == [present |-> TRUE, hasValue |-> TRUE, value |-> r]

Job(q, lead, n, tries) == [q |-> q, lead |-> lead, n |-> n, tries |-> tries]

\* email:{leadId}:step:{step}, call:{leadId}:attempt:{attempt}
idemKey(job) == [stage |-> job.q, lead |-> job.lead, n |-> job.n]

One(x) == SetToBag({x})

\* ------------------------------------------------------------- queues

\* queue.add with defaultJobOptions: a new job with no attempt made.
enqueue(qs, q, lead, n) == qs (+) One(Job(q, lead, n, 0))
\* A variant of the retry with no cap on the attempts: the failed job goes
\* back into its queue as it was.
RetryQueueNoCap(qs, job) == qs (+) One(job)

\* A handler threw: BullMQ retries until `attempts` attempts were made,
\* then keeps the job in the failed set (removeOnFail: false).
RetryQueue(qs, job) ==
  IF job.tries + 1 < attempts
  THEN qs (+) One([job EXCEPT !.tries = @ + 1])
  ELSE qs

RetryFailed(fs, job) ==
  IF job.tries + 1 < attempts
  THEN fs
  ELSE fs (+) One([job EXCEPT !.tries = @ + 1])

\* The environment's events are bounded in total.
Spend(what) ==
  /\ used.regens + used.webhooks + used.redeliver + used.faults < MaxDisturb
  /\ used' = [used EXCEPT ![what] = @ + 1]

\* --------------------------------------------------------------- Init

\* createCampaignHandler has run: the campaign row with its
\* CAMPAIGN_CREATED event exists and the Scrape job is enqueued.
Init ==
  /\ campaign = [status |-> "RUNNING", limit |-> minLimit]
  /\ leads = [l \in 1..MaxLeads |-> NoLead]
  /\ events = Event([e \in {0} \cup 1..MaxLeads |-> NoEvents],
                    0, "CAMPAIGN_CREATED", 0, 0)
  /\ idem = [k \in Keys |-> NoRow]
  /\ queue = One(Job("scrape", 0, 0, 0))
  /\ failed = EmptyBag
  /\ active = EmptyBag
  /\ runCalls = [k \in Keys |-> 0]
  /\ providerCalls = [k \in Keys |-> 0]
  /\ done = [k \in Keys |-> 0]
  /\ used = [regens |-> 0, webhooks |-> 0, redeliver |-> 0, faults |-> 0]
  /\ reply = ""

\* ------------------------------------------- Email and Call handlers

\* An invocation of processEmailJob / processCallJob that has entered
\* runIdempotentStage: its job, its position, the provider's result held
\* by run(), and what runIdempotentStage returned (at pc "returned").
Inv(job, pc, res, executed, result) ==
  [job |-> job, pc |-> pc, res |-> res, executed |-> executed,
   result |-> result]

At(a, pc) == [a EXCEPT !.pc = pc]

\* A variant of the Email entry with no doNotContact check.
EmailEntryNoOptOut(lead, step) ==
  IF ~lead.exists THEN "throw"
  ELSE IF ~lead.email THEN "skip"
  ELSE IF ~lead.demoUrl THEN "throw"
  ELSE IF lead.emailSentCount >= step THEN "skip"
  ELSE "run"

\* processEmailJob, from the lead load to the call of runIdempotentStage.
EmailEntry(lead, step) ==
  IF ~lead.exists THEN "throw"
  ELSE IF lead.doNotContact THEN "skip"
  ELSE IF ~lead.email THEN "skip"
  ELSE IF ~lead.demoUrl THEN "throw"
  ELSE IF lead.emailSentCount >= step THEN "skip"
  ELSE "run"

\* A variant of the Call entry with no cap on callAttempts.
CallEntryNoCap(lead) ==
  IF ~lead.exists THEN "throw"
  ELSE IF lead.doNotContact THEN "skip"
  ELSE IF ~lead.phone THEN "skip"
  ELSE "run"

\* processCallJob, from the lead load to the call of runIdempotentStage.
CallEntry(lead) ==
  IF ~lead.exists THEN "throw"
  ELSE IF lead.doNotContact THEN "skip"
  ELSE IF ~lead.phone THEN "skip"
  ELSE IF lead.callAttempts >= maxCallAttempts THEN "skip"
  ELSE "run"

StageEntry(job) ==
  IF job.q = "email"
  THEN EmailEntry(leads[job.lead], job.n)
  ELSE CallEntry(leads[job.lead])

\* A worker takes an Email or Call job: the handler loads the lead and
\* returns (skip), throws, or goes on to runIdempotentStage.
StartStage(job) ==
  /\ job.q \in {"email", "call"}
  /\ BagIn(job, queue)
  /\ BagCardinality(active) < MaxInflight
  /\ LET e == StageEntry(job) IN
       /\ queue' = IF e = "throw"
                   THEN RetryQueue(queue (-) One(job), job)
                   ELSE queue (-) One(job)
       /\ failed' = IF e = "throw" THEN RetryFailed(failed, job) ELSE failed
       /\ active' = IF e = "run"
                    THEN active (+) One(Inv(job, "lookup", 0, FALSE, 0))
                    ELSE active
  /\ UNCHANGED <<reply, campaign, leads, events, idem, runCalls, providerCalls, done, used>>

\* Variants of the lookup that the properties of the store exclude: one
\* that answers a committed key with null, one that goes on to claim a key
\* whose row has no result yet.
LookupRowDropsValue(a, row) ==
  IF row.present
  THEN [a EXCEPT !.pc = "returned", !.executed = FALSE, !.result = 0]
  ELSE At(a, "claim")

LookupRowReclaims(a, row) ==
  IF row.present /\ row.hasValue
  THEN [a EXCEPT !.pc = "returned", !.executed = FALSE,
                 !.result = row.value]
  ELSE At(a, "claim")

\* runIdempotentStage: what the findUnique of the key decides.
LookupRow(a, row) ==
  IF row.present
  THEN IF row.hasValue
       THEN [a EXCEPT !.pc = "returned", !.executed = FALSE,
                      !.result = row.value]
       ELSE [a EXCEPT !.pc = "returned", !.executed = FALSE, !.result = 0]
  ELSE At(a, "claim")

Lookup(a) ==
  /\ BagIn(a, active)
  /\ a.pc = "lookup"
  /\ active' = (active (-) One(a)) (+) One(LookupRow(a, idem[idemKey(a.job)]))
  /\ UNCHANGED <<reply, campaign, leads, events, idem, queue, failed, runCalls,
                 providerCalls, done, used>>

\* A variant of the claim whose insert does not conflict with an existing
\* row (a table with no primary key on the key).
ClaimNoPrimaryKey(a) ==
  /\ BagIn(a, active)
  /\ a.pc = "claim"
  /\ active' = (active (-) One(a)) (+) One(At(a, "run"))
  /\ idem' = [idem EXCEPT ![idemKey(a.job)] = ClaimRow]
  /\ UNCHANGED <<reply, campaign, leads, events, queue, failed, runCalls,
                 providerCalls, done, used>>

\* runIdempotentStage: idempotencyKey.create. The key is the primary key:
\* the insert of an existing key throws, outside the try block, so the
\* handler throws and the row is left as it is.
Claim(a) ==
  /\ BagIn(a, active)
  /\ a.pc = "claim"
  /\ LET k == idemKey(a.job) IN
       IF idem[k].present
       THEN /\ active' = active (-) One(a)
            /\ queue' = RetryQueue(queue, a.job)
            /\ failed' = RetryFailed(failed, a.job)
            /\ idem' = idem
       ELSE /\ active' = (active (-) One(a)) (+) One(At(a, "run"))
            /\ idem' = [idem EXCEPT ![k] = ClaimRow]
            /\ UNCHANGED <<queue, failed>>
  /\ UNCHANGED <<reply, campaign, leads, events, runCalls, providerCalls, done, used>>

\* run(): emailProvider.sendEmail / callProvider.placeCall succeeds.
CallProvider(a) ==
  /\ BagIn(a, active)
  /\ a.pc = "run"
  /\ LET k == idemKey(a.job) IN
       /\ runCalls' = [runCalls EXCEPT ![k] = @ + 1]
       /\ providerCalls' = [providerCalls EXCEPT ![k] = @ + 1]
       /\ active' = (active (-) One(a))
                      (+) One([a EXCEPT !.pc = "update",
                                        !.res = providerCalls[k] + 1])
  /\ UNCHANGED <<reply, campaign, leads, events, idem, queue, failed, done, used>>

\* run(): prisma.lead.update of the Email stage.
\* A variant of the Email update that leaves the counter alone.
EmailLeadUpdateKeepsCount(lead) ==
  [lead EXCEPT !.status = "EMAILED_1", !.lastError = "null"]

EmailLeadUpdate(lead) ==
  [lead EXCEPT !.emailSentCount = @ + 1, !.status = "EMAILED_1",
               !.lastError = "null"]

\* run(): prisma.lead.update of the Call stage.
CallLeadUpdate(lead) ==
  [lead EXCEPT !.callAttempts = @ + 1, !.status = "CALLED_1",
               !.lastError = "null"]

UpdateLead(a) ==
  /\ BagIn(a, active)
  /\ a.pc = "update"
  /\ leads' = [leads EXCEPT ![a.job.lead] =
                 IF a.job.q = "email" THEN EmailLeadUpdate(@)
                 ELSE CallLeadUpdate(@)]
  /\ active' = (active (-) One(a)) (+) One(At(a, "event"))
  /\ UNCHANGED <<reply, campaign, events, idem, queue, failed, runCalls,
                 providerCalls, done, used>>

\* run(): prisma.event.create (EMAIL_SENT / CALL_PLACED).
StageEvent(ev, a) ==
  IF a.job.q = "email"
  THEN Event(ev, a.job.lead, "EMAIL_SENT", a.job.n, a.res)
  ELSE Event(ev, a.job.lead, "CALL_PLACED", a.job.n, a.res)

WriteEvent(a) ==
  /\ BagIn(a, active)
  /\ a.pc = "event"
  /\ events' = StageEvent(events, a)
  /\ active' = (active (-) One(a))
                 (+) One(At(a, IF a.job.q = "email" THEN "enqueue"
                               ELSE "commit"))
  /\ UNCHANGED <<reply, campaign, leads, idem, queue, failed, runCalls,
                 providerCalls, done, used>>

\* A variant of the Email stage that goes on without adding the Call job.
EnqueueCallSkipped(a) ==
  /\ BagIn(a, active)
  /\ a.pc = "enqueue"
  /\ active' = (active (-) One(a)) (+) One(At(a, "commit"))
  /\ UNCHANGED <<reply, campaign, leads, events, idem, queue, failed, runCalls,
                 providerCalls, done, used>>

\* run() of the Email stage: callQueue.add("place-call", {attempt: 1}).
EnqueueCall(a) ==
  /\ BagIn(a, active)
  /\ a.pc = "enqueue"
  /\ queue' = enqueue(queue, "call", a.job.lead, 1)
  /\ active' = (active (-) One(a)) (+) One(At(a, "commit"))
  /\ UNCHANGED <<reply, campaign, leads, events, idem, failed, runCalls,
                 providerCalls, done, used>>

\* runIdempotentStage: idempotencyKey.update with {value: result}, then
\* return {executed: true, result}.
Commit(a) ==
  /\ BagIn(a, active)
  /\ a.pc = "commit"
  /\ idem' = [idem EXCEPT ![idemKey(a.job)] = ResultRow(a.res)]
  /\ active' = (active (-) One(a))
                 (+) One([a EXCEPT !.pc = "returned", !.executed = TRUE,
                                   !.result = a.res])
  /\ done' = [done EXCEPT ![idemKey(a.job)] = a.res]
  /\ UNCHANGED <<reply, campaign, leads, events, queue, failed, runCalls,
                 providerCalls, used>>

\* The handler logs what runIdempotentStage returned and returns: the job
\* completes and is pruned (removeOnComplete).
Finish(a) ==
  /\ BagIn(a, active)
  /\ a.pc = "returned"
  /\ active' = active (-) One(a)
  /\ UNCHANGED <<reply, campaign, leads, events, idem, queue, failed, runCalls,
                 providerCalls, done, used>>

\* runIdempotentStage, catch block: an operation of run() or the result
\* update throws; the claim row is deleted and the error rethrown, the
\* handler throws and the queue retries the job.
BodyPcs == {"run", "update", "event", "enqueue", "commit"}

\* A variant of the catch block with no delete.
RollbackKeepsRow(row) == row

RollbackRow(row) == NoRow

StageFault(a) ==
  /\ BagIn(a, active)
  /\ a.pc \in BodyPcs
  /\ Spend("faults")
  /\ runCalls' = IF a.pc = "run"
                 THEN [runCalls EXCEPT ![idemKey(a.job)] = @ + 1]
                 ELSE runCalls
  /\ idem' = [idem EXCEPT ![idemKey(a.job)] = RollbackRow(@)]
  /\ active' = active (-) One(a)
  /\ queue' = RetryQueue(queue, a.job)
  /\ failed' = RetryFailed(failed, a.job)
  /\ UNCHANGED <<reply, campaign, leads, events, providerCalls, done>>

\* ------------------------------------------------ the event log, read

\* findFirst / findMany(take: 1) ordered by createdAt desc: the most
\* recent event of a type of an entity; absent when there is none.
HasEvent(log, type) == Len(log[type]) > 0

\* A variant that reads the first event of the type instead.
Oldest(log, type) == log[type][1]

Latest(log, type) == log[type][Len(log[type])]

\* --------------------------------------------------------------- Scrape

\* mockListingsProvider.scrapeListings: listing n has its own websiteUrl
\* (url n, under example.com), a phone and an email.
mockListing(n) == [url |-> n, email |-> TRUE, phone |-> TRUE]

Min(a, b) == IF a < b THEN a ELSE b
Max(a, b) == IF a > b THEN a ELSE b

\* A variant of the mock provider that returns as many listings as asked.
scrapeListingsUncapped(limit) == [n \in 1..limit |-> mockListing(n)]

scrapeListings(limit) ==
  [n \in 1..Max(1, Min(limit, mockMaxListings)) |-> mockListing(n)]

\* A variant of the upsert with no unique key to find the row by: every
\* listing is inserted (into the last row when the table is full).
InsertTarget(ls, listing) ==
  IF \E l \in LeadIds : ~ls[l].exists
  THEN CHOOSE l \in LeadIds :
         ~ls[l].exists /\ \A m \in LeadIds : ~ls[m].exists => l <= m
  ELSE CHOOSE l \in LeadIds : \A m \in LeadIds : m <= l

\* The row the upsert's unique key (campaignId, websiteUrl) selects, or
\* the next free id for an insert.
UpsertTarget(ls, listing) ==
  IF listing.url # 0 /\ \E l \in LeadIds : ls[l].exists /\ ls[l].url = listing.url
  THEN CHOOSE l \in LeadIds : ls[l].exists /\ ls[l].url = listing.url
  ELSE CHOOSE l \in LeadIds :
         ~ls[l].exists /\ \A m \in LeadIds : ~ls[m].exists => l <= m

\* A variant of the upsert whose update branch resets doNotContact.
upsertResetsDoNotContact(lead, listing) ==
  IF lead.exists
  THEN [lead EXCEPT !.phone = listing.phone, !.email = listing.email,
                    !.status = "SCRAPED", !.lastError = "null",
                    !.doNotContact = FALSE]
  ELSE [NoLead EXCEPT !.exists = TRUE, !.url = listing.url,
                      !.phone = listing.phone, !.email = listing.email,
                      !.status = "SCRAPED"]

\* upsertLeadFromListing: the update branch writes the contact fields,
\* status SCRAPED and lastError null; the create branch inserts a row
\* with the column defaults.
upsertLeadFromListing(lead, listing) ==
  IF lead.exists
  THEN [lead EXCEPT !.phone = listing.phone, !.email = listing.email,
                    !.status = "SCRAPED", !.lastError = "null"]
  ELSE [NoLead EXCEPT !.exists = TRUE, !.url = listing.url,
                      !.phone = listing.phone, !.email = listing.email,
                      !.status = "SCRAPED"]

\* processScrapeJob, the loop over the listings from listing i on: per
\* listing the upsert, the LEAD_SCRAPED event and the Enrich enqueue.
RECURSIVE ScrapeLoop(_, _, _)
ScrapeLoop(listings, i, st) ==
  IF i > Len(listings) THEN st
  ELSE LET listing == listings[i]
           l == UpsertTarget(st.leads, listing)
       IN ScrapeLoop(listings, i + 1,
            [leads |-> [st.leads EXCEPT ![l] =
                          upsertLeadFromListing(@, listing)],
             events |-> Event(st.events, l, "LEAD_SCRAPED", listing.url, 0),
             queue |-> enqueue(st.queue, "enrich", l, 0)])

\* processScrapeJob once the provider returned its listings: the loop, then
\* the campaign update.
ScrapeWith(job, listings) ==
  /\ job.q = "scrape"
  /\ BagIn(job, queue)
  /\ LET st == ScrapeLoop(listings, 1,
                          [leads |-> leads, events |-> events,
                           queue |-> queue (-) One(job)])
     IN /\ leads' = st.leads
        /\ events' = st.events
        /\ queue' = st.queue
  /\ campaign' = [campaign EXCEPT !.status = "RUNNING"]
  /\ UNCHANGED <<reply, idem, failed, active, runCalls, providerCalls, done,
                 used>>

\* processScrapeJob with the listings of the mock provider (configured, or
\* the fallback of a web search that found nothing).
processScrapeJob(job) == ScrapeWith(job, scrapeListings(campaign.limit))

\* searchDuckDuckGoListings finding k hosts: listings with a websiteUrl
\* outside example.com and neither phone nor email.
searchDuckDuckGoListings(k) ==
  [n \in 1..k |-> [url |-> 0 - n, email |-> FALSE, phone |-> FALSE]]

\* processScrapeJob with the listings of a web search that found k hosts,
\* at most the capped limit.
processScrapeJobSearch(job, k) ==
  /\ k \in 1..Min(Max(1, Min(campaign.limit, searchMaxListings)), MaxFound)
  /\ ScrapeWith(job, searchDuckDuckGoListings(k))

\* --------------------------------------------------------------- Enrich

\* What crawlLeadWebsite yields: pages with extracted service keywords
\* (kw 1 names a non-empty keyword list) and perhaps contact data, no HTML
\* page at all, or an exception.
CrawlResults ==
  { [kind |-> "ok", kw |-> 1, contact |-> TRUE],
    [kind |-> "nohtml", kw |-> 0, contact |-> FALSE],
    [kind |-> "throw", kw |-> 0, contact |-> FALSE] }

CrawlOutcomes == {x \in CrawlResults : x.kind # "throw"}
CrawlThrows == {x \in CrawlResults : x.kind = "throw"}

\* isMockWebsiteUrl: the host is under example.com, as the urls of the mock
\* provider are (url n > 0); a host found by a web search is url -n.
isMockWebsiteUrl(url) == url > 0

\* A variant of the lead update that records no error when the crawl
\* yields no HTML page.
EnrichLeadUpdateSilent(lead, x) ==
  IF x.kind = "throw"
  THEN [lead EXCEPT !.status = "ENRICHED", !.lastError = "error"]
  ELSE [lead EXCEPT
          !.phone = x.contact \/ lead.phone,
          !.email = x.contact \/ lead.email,
          !.status = "ENRICHED",
          !.lastError = "null"]

\* processEnrichJob: the lead update of the try block, and of the catch
\* block when the crawl throws.
EnrichLeadUpdate(lead, x) ==
  IF x.kind = "throw"
  THEN [lead EXCEPT !.status = "ENRICHED", !.lastError = "error"]
  ELSE [lead EXCEPT
          !.phone = x.contact \/ lead.phone,
          !.email = x.contact \/ lead.email,
          !.status = "ENRICHED",
          !.lastError =
            IF x.kind = "ok"
            THEN IF lead.url = 0 \/ isMockWebsiteUrl(lead.url)
                 THEN "placeholder" ELSE "null"
            ELSE "nohtml"]

\* A handler that ends before any write: it returns (the job completes)
\* or throws (the queue retries the job).
Returns(job) ==
  /\ queue' = queue (-) One(job)
  /\ UNCHANGED <<reply, campaign, leads, events, idem, failed, active, runCalls,
                 providerCalls, done>>

Throws(job) ==
  /\ queue' = RetryQueue(queue (-) One(job), job)
  /\ failed' = RetryFailed(failed, job)
  /\ UNCHANGED <<reply, campaign, leads, events, idem, active, runCalls,
                 providerCalls, done>>

\* processEnrichJob with the crawl yielding x (budget aside).
Enrich(job, x) ==
  /\ job.q = "enrich"
  /\ BagIn(job, queue)
  /\ LET l == job.lead IN
       IF ~leads[l].exists THEN Throws(job)
       ELSE IF leads[l].doNotContact THEN Returns(job)
       ELSE /\ leads' = [leads EXCEPT ![l] = EnrichLeadUpdate(@, x)]
            /\ events' = Event(events, l, "LEAD_ENRICHED", x.kw, 0)
            /\ queue' = enqueue(queue (-) One(job), "site", l, 0)
            /\ UNCHANGED <<reply, campaign, idem, failed, active, runCalls,
                           providerCalls, done>>

processEnrichJob(job, x) == Enrich(job, x) /\ UNCHANGED used

\* crawlLeadWebsite throws: the catch block of processEnrichJob writes.
CrawlFault(job, x) ==
  /\ job.q = "enrich"
  /\ leads[job.lead].exists /\ ~leads[job.lead].doNotContact
  /\ Spend("faults")
  /\ Enrich(job, x)

\* -------------------------------------------------- Site, Image, Deploy

\* processSiteJob: serviceKeywords of the latest LEAD_ENRICHED event, the
\* empty list (0) when there is none.
SiteServices(log) ==
  IF HasEvent(log, "LEAD_ENRICHED") THEN Latest(log, "LEAD_ENRICHED").a
  ELSE 0

SiteLeadUpdate(lead) ==
  [lead EXCEPT !.status = "SITE_GENERATED", !.lastError = "null"]

processSiteJob(job) ==
  /\ job.q = "site"
  /\ BagIn(job, queue)
  /\ LET l == job.lead IN
       IF ~leads[l].exists THEN Throws(job) /\ UNCHANGED used
       ELSE /\ leads' = [leads EXCEPT ![l] = SiteLeadUpdate(@)]
            /\ events' = Event(events, l, "SITE_GENERATED",
                               SiteServices(events[l]), 1)
            /\ queue' = enqueue(queue (-) One(job), "image", l, 0)
            /\ UNCHANGED <<reply, campaign, idem, failed, active, runCalls,
                           providerCalls, done, used>>

ImageLeadUpdate(lead) ==
  [lead EXCEPT !.status = "IMAGES_READY", !.lastError = "null"]

processImageJob(job) ==
  /\ job.q = "image"
  /\ BagIn(job, queue)
  /\ LET l == job.lead IN
       IF ~leads[l].exists THEN Throws(job) /\ UNCHANGED used
       ELSE /\ leads' = [leads EXCEPT ![l] = ImageLeadUpdate(@)]
            /\ events' = Event(events, l, "IMAGES_READY", 0, 0)
            /\ queue' = enqueue(queue (-) One(job), "deploy", l, 0)
            /\ UNCHANGED <<reply, campaign, idem, failed, active, runCalls,
                           providerCalls, done, used>>

\* A variant of the Deploy entry with no status precondition.
DeployEntryAnyStatus(lead, log) ==
  IF ~lead.exists THEN "throw"
  ELSE IF ~HasEvent(log, "SITE_GENERATED") THEN "throw"
  ELSE IF Latest(log, "SITE_GENERATED").b = 0 THEN "throw"
  ELSE "run"

\* processDeployJob: the status precondition and the site bundle (zipPath
\* of the latest SITE_GENERATED event) it needs before it deploys.
DeployEntry(lead, log) ==
  IF ~lead.exists THEN "throw"
  ELSE IF lead.status # "IMAGES_READY" THEN "throw"
  ELSE IF ~HasEvent(log, "SITE_GENERATED") THEN "throw"
  ELSE IF Latest(log, "SITE_GENERATED").b = 0 THEN "throw"
  ELSE "run"

\* A variant of the Deploy update that records the status alone.
DeployLeadUpdateNoUrl(lead) ==
  [lead EXCEPT !.status = "DEPLOYED", !.lastError = "null"]

DeployLeadUpdate(lead) ==
  [lead EXCEPT !.demoUrl = TRUE, !.status = "DEPLOYED", !.lastError = "null"]

processDeployJob(job) ==
  /\ job.q = "deploy"
  /\ BagIn(job, queue)
  /\ LET l == job.lead IN
       IF DeployEntry(leads[l], events[l]) = "throw"
       THEN Throws(job) /\ UNCHANGED used
       ELSE /\ leads' = [leads EXCEPT ![l] = DeployLeadUpdate(@)]
            /\ events' = Event(events, l, "DEPLOYED", 0, 0)
            /\ queue' = enqueue(queue (-) One(job), "email", l, 1)
            /\ UNCHANGED <<reply, campaign, idem, failed, active, runCalls,
                           providerCalls, done, used>>

\* The provider call of Site, Image or Deploy throws (generateSite, the
\* image provider, deployProvider.deploy): nothing was written yet, the
\* handler throws and the queue retries the job.
ProviderFault(job) ==
  /\ job.q \in {"site", "image", "deploy"}
  /\ BagIn(job, queue)
  /\ leads[job.lead].exists
  /\ job.q = "deploy" => DeployEntry(leads[job.lead], events[job.lead]) = "run"
  /\ Spend("faults")
  /\ Throws(job)

\* -------------------------------------------------------------- webhook

Transcripts ==
  { <<>>,
    <<"call", "me", "back">>,
    <<"please", "REMOVE", "me", "from", "your", "list">> }

\* A variant that compares the transcript as it was written.
toLowerCaseNot(w) == w

toLowerCase(w) == IF w = "REMOVE" THEN "remove" ELSE w

phrases ==
  { <<"do", "not", "call">>, <<"don't", "call">>, <<"stop", "calling">>,
    <<"remove", "me">>, <<"opt", "out">>, <<"unsubscribe">> }

includes(text, phrase) ==
  \E i \in 1..(Len(text) - Len(phrase) + 1) :
    SubSeq(text, i, i + Len(phrase) - 1) = phrase

\* hasOptOutIntent, on a transcript given word by word.
hasOptOutIntent(transcript) ==
  LET text == [i \in 1..Len(transcript) |-> toLowerCase(transcript[i])]
  IN \E phrase \in phrases : includes(text, phrase)

\* A variant of the webhook update that writes the status alone.
WebhookLeadUpdateStatusOnly(lead) == [lead EXCEPT !.status = "DO_NOT_CONTACT"]

WebhookLeadUpdate(lead) ==
  [lead EXCEPT !.doNotContact = TRUE, !.status = "DO_NOT_CONTACT"]

\* A request body: malformed (callWebhookSchema rejects it), or a leadId
\* (0: none given), a campaignId (none given, that of the campaign, or one
\* of no campaign) and a transcript.
NoSuchLead == Cardinality(LeadIds) + 1

Payloads ==
  [malformed : {TRUE}, lead : {0}, campaign : {"none"}, transcript : {<<>>}]
    \cup [malformed : {FALSE}, lead : {0} \cup LeadIds \cup {NoSuchLead},
          campaign : {"none", "known", "unknown"}, transcript : Transcripts]

\* The lead the handler's findUnique returns for a leadId, if any.
FindsLead(id) == id \in LeadIds /\ leads[id].exists

\* The campaignId the event is written with: the lead's when a leadId was
\* given, else the payload's.
ResolveCampaign(p) == IF p.lead # 0 THEN "known" ELSE p.campaign

\* What the handler answers before any write, "" when it goes on to write.
WebhookRejects(p) ==
  IF p.malformed THEN "400"
  ELSE IF p.lead # 0 /\ ~FindsLead(p.lead) THEN "404"
  ELSE IF ResolveCampaign(p) = "none" THEN "400"
  ELSE ""

\* callWebhookHandler on request body p. The Event row references the
\* campaign (foreign key): event.create with the id of no campaign throws,
\* and the route discards the handler's promise, so nothing is answered.
callWebhook(p) ==
  /\ Spend("webhooks")
  /\ IF WebhookRejects(p) # ""
     THEN /\ reply' = WebhookRejects(p)
          /\ UNCHANGED <<leads, events>>
     ELSE IF ResolveCampaign(p) = "unknown"
     THEN /\ reply' = "unanswered"
          /\ UNCHANGED <<leads, events>>
     ELSE LET optOut == Len(p.transcript) > 0
                          /\ hasOptOutIntent(p.transcript)
          IN /\ events' = Event(events, p.lead, "CALL_RESULT",
                                IF optOut THEN 1 ELSE 0, 0)
             /\ leads' = IF p.lead # 0 /\ optOut
                         THEN [leads EXCEPT ![p.lead] = WebhookLeadUpdate(@)]
                         ELSE leads
             /\ reply' = "200"
  /\ UNCHANGED <<campaign, idem, queue, failed, active, runCalls,
                 providerCalls, done>>

\* callWebhookHandler for a payload naming an existing lead: the
\* CALL_RESULT event, then the opt-out update of the lead.
callWebhookHandler(l, transcript) ==
  /\ leads[l].exists
  /\ callWebhook([malformed |-> FALSE, lead |-> l, campaign |-> "none",
                  transcript |-> transcript])

\* --------------------------------------------------------- regeneration

\* regenerateLeadDemoHandler: enqueueEnrich for an existing lead.
regenerateLeadDemoHandler(l) ==
  /\ leads[l].exists
  /\ Spend("regens")
  /\ queue' = enqueue(queue, "enrich", l, 0)
  /\ UNCHANGED <<reply, campaign, leads, events, idem, failed, active, runCalls,
                 providerCalls, done>>

\* ------------------------------------------------- at-least-once queue

\* A waiting job is delivered once more than it was enqueued.
Redeliver(job) ==
  /\ BagIn(job, queue)
  /\ Spend("redeliver")
  /\ queue' = queue (+) One(job)
  /\ UNCHANGED <<reply, campaign, leads, events, idem, failed, active, runCalls,
                 providerCalls, done>>

\* ------------------------------------------------------- specification

NextNoFault ==
  \/ \E job \in BagToSet(queue) : processScrapeJob(job)
  \/ \E job \in BagToSet(queue) : \E x \in CrawlOutcomes :
       processEnrichJob(job, x)
  \/ \E job \in BagToSet(queue) : processSiteJob(job)
  \/ \E job \in BagToSet(queue) : processImageJob(job)
  \/ \E job \in BagToSet(queue) : processDeployJob(job)
  \/ \E job \in BagToSet(queue) : StartStage(job)
  \/ \E job \in BagToSet(queue) : Redeliver(job)
  \/ \E a \in BagToSet(active) : Lookup(a)
  \/ \E a \in BagToSet(active) : Claim(a)
  \/ \E a \in BagToSet(active) : CallProvider(a)
  \/ \E a \in BagToSet(active) : UpdateLead(a)
  \/ \E a \in BagToSet(active) : WriteEvent(a)
  \/ \E a \in BagToSet(active) : EnqueueCall(a)
  \/ \E a \in BagToSet(active) : Commit(a)
  \/ \E a \in BagToSet(active) : Finish(a)
  \/ \E l \in LeadIds : \E t \in Transcripts : callWebhookHandler(l, t)
  \/ \E l \in LeadIds : regenerateLeadDemoHandler(l)

Faults ==
  \/ \E job \in BagToSet(queue) : ProviderFault(job)
  \/ \E job \in BagToSet(queue) : \E x \in CrawlThrows : CrawlFault(job, x)
  \/ \E a \in BagToSet(active) : StageFault(a)

Next == NextNoFault \/ Faults

\* The whole pipeline of a campaign, from its creation.
Spec == Init /\ [][Next]_vars

\* ----------------------------------------- the contact stages, alone

\* The state the pipeline reaches when Scrape, Enrich, Site, Image and
\* Deploy have run once for the campaign's lead and nothing else has
\* happened: the lead is DEPLOYED and the Email step-1 job is enqueued.
DeployedLead ==
  [NoLead EXCEPT !.exists = TRUE, !.url = 1, !.status = "DEPLOYED",
                 !.demoUrl = TRUE, !.email = TRUE, !.phone = TRUE,
                 !.lastError = "null"]

DeployedEvents ==
  Event(Event(Event(Event(Event(Event(
    [e \in {0} \cup 1..MaxLeads |-> NoEvents],
    0, "CAMPAIGN_CREATED", 0, 0),
    1, "LEAD_SCRAPED", 1, 0),
    1, "LEAD_ENRICHED", 1, 0),
    1, "SITE_GENERATED", 1, 1),
    1, "IMAGES_READY", 0, 0),
    1, "DEPLOYED", 0, 0)

StageInit ==
  /\ campaign = [status |-> "RUNNING", limit |-> minLimit]
  /\ leads = [l \in 1..MaxLeads |-> IF l = 1 THEN DeployedLead ELSE NoLead]
  /\ events = DeployedEvents
  /\ idem = [k \in Keys |-> NoRow]
  /\ queue = One(Job("email", 1, 1, 0))
  /\ failed = EmptyBag
  /\ active = EmptyBag
  /\ runCalls = [k \in Keys |-> 0]
  /\ providerCalls = [k \in Keys |-> 0]
  /\ done = [k \in Keys |-> 0]
  /\ used = [regens |-> 0, webhooks |-> 0, redeliver |-> 0, faults |-> 0]
  /\ reply = ""

StageSteps ==
  \/ \E job \in BagToSet(queue) : StartStage(job)
  \/ \E job \in BagToSet(queue) : Redeliver(job)
  \/ \E a \in BagToSet(active) : Lookup(a)
  \/ \E a \in BagToSet(active) : Claim(a)
  \/ \E a \in BagToSet(active) : CallProvider(a)
  \/ \E a \in BagToSet(active) : UpdateLead(a)
  \/ \E a \in BagToSet(active) : WriteEvent(a)
  \/ \E a \in BagToSet(active) : EnqueueCall(a)
  \/ \E a \in BagToSet(active) : Commit(a)
  \/ \E a \in BagToSet(active) : Finish(a)
  \/ \E a \in BagToSet(active) : StageFault(a)

NextStage ==
  \/ StageSteps
  \/ \E l \in LeadIds : \E t \in Transcripts : callWebhookHandler(l, t)

\* The Email and Call stages of a deployed lead, with duplicate
\* deliveries, webhooks and throwing operations.
SpecStage == StageInit /\ [][NextStage]_vars

\* StageInit is a state of Spec.
ReachesStageInit == ~StageInit

\* ------------------------------------------------- the Scrape stage, alone

\* createCampaignHandler has run for a campaign of any limit from minLimit
\* to MaxLimit: as Init, with room in the Lead table for every listing the
\* two providers can return.
ScrapeInit ==
  /\ campaign \in [status : {"RUNNING"}, limit : minLimit..MaxLimit]
  /\ leads = [l \in 1..(mockMaxListings + MaxFound) |-> NoLead]
  /\ events = Event([e \in {0} \cup 1..(mockMaxListings + MaxFound)
                       |-> NoEvents],
                    0, "CAMPAIGN_CREATED", 0, 0)
  /\ idem = [k \in Keys |-> NoRow]
  /\ queue = One(Job("scrape", 0, 0, 0))
  /\ failed = EmptyBag
  /\ active = EmptyBag
  /\ runCalls = [k \in Keys |-> 0]
  /\ providerCalls = [k \in Keys |-> 0]
  /\ done = [k \in Keys |-> 0]
  /\ used = [regens |-> 0, webhooks |-> 0, redeliver |-> 0, faults |-> 0]
  /\ reply = ""

NextScrape ==
  \/ \E job \in BagToSet(queue) : processScrapeJob(job)
  \/ \E job \in BagToSet(queue) : \E k \in 1..MaxFound :
       processScrapeJobSearch(job, k)
  \/ \E job \in BagToSet(queue) : job.q = "scrape" /\ Redeliver(job)

\* The Scrape job of a campaign and its duplicate deliveries, before any
\* Enrich job runs.
SpecScrape == ScrapeInit /\ [][NextScrape]_vars

\* ------------------------------------------- the call webhook, any body

NextWebhook ==
  \/ StageSteps
  \/ \E p \in Payloads : callWebhook(p)

\* The Email and Call stages of a deployed lead with call webhook requests
\* of every kind of body.
SpecWebhook == StageInit /\ [][NextWebhook]_vars

\* ------------------------------- the contact stages, any contact data

\* As StageInit for a lead found by a web search (no phone and no email in
\* the listing) whose crawl extracted a phone, an email, both or neither.
ContactInit ==
  /\ campaign = [status |-> "RUNNING", limit |-> minLimit]
  /\ \E e, p \in BOOLEAN :
       leads = [l \in 1..MaxLeads |->
                  IF l = 1
                  THEN [DeployedLead EXCEPT !.url = 0 - 1, !.email = e,
                                            !.phone = p]
                  ELSE NoLead]
  /\ events = [DeployedEvents EXCEPT
                 ![1]["LEAD_SCRAPED"] = <<[a |-> 0 - 1, b |-> 0]>>]
  /\ idem = [k \in Keys |-> NoRow]
  /\ queue = One(Job("email", 1, 1, 0))
  /\ failed = EmptyBag
  /\ active = EmptyBag
  /\ runCalls = [k \in Keys |-> 0]
  /\ providerCalls = [k \in Keys |-> 0]
  /\ done = [k \in Keys |-> 0]
  /\ used = [regens |-> 0, webhooks |-> 0, redeliver |-> 0, faults |-> 0]
  /\ reply = ""

\* The Email and Call stages of a deployed lead that may lack an email
\* address or a phone number.
SpecContact == ContactInit /\ [][NextStage]_vars

\* ------------------------------------------------ the undisturbed run

\* createCampaignHandler has run for a campaign of limit 1 .. LiveLeads.
LiveInit ==
  /\ campaign \in [status : {"RUNNING"}, limit : minLimit..LiveLeads]
  /\ leads = [l \in 1..LiveLeads |-> NoLead]
  /\ events = Event([e \in {0} \cup 1..LiveLeads |-> NoEvents],
                    0, "CAMPAIGN_CREATED", 0, 0)
  /\ idem = [k \in Keys |-> NoRow]
  /\ queue = One(Job("scrape", 0, 0, 0))
  /\ failed = EmptyBag
  /\ active = EmptyBag
  /\ runCalls = [k \in Keys |-> 0]
  /\ providerCalls = [k \in Keys |-> 0]
  /\ done = [k \in Keys |-> 0]
  /\ used = [regens |-> 0, webhooks |-> 0, redeliver |-> 0, faults |-> 0]
  /\ reply = ""

\* The workers of the seven queues, each job delivered once, with no
\* throwing operation, no webhook and no regeneration request.
ScrapeStep == \E job \in BagToSet(queue) : processScrapeJob(job)
EnrichStep ==
  \E job \in BagToSet(queue) : \E x \in CrawlOutcomes : processEnrichJob(job, x)
SiteStep == \E job \in BagToSet(queue) : processSiteJob(job)
ImageStep == \E job \in BagToSet(queue) : processImageJob(job)
DeployStep == \E job \in BagToSet(queue) : processDeployJob(job)
ContactStart == \E job \in BagToSet(queue) : StartStage(job)
ContactStep ==
  \E a \in BagToSet(active) :
    \/ Lookup(a)
    \/ Claim(a)
    \/ CallProvider(a)
    \/ UpdateLead(a)
    \/ WriteEvent(a)
    \/ EnqueueCall(a)
    \/ Commit(a)
    \/ Finish(a)

NextLive ==
  \/ ScrapeStep
  \/ EnrichStep
  \/ SiteStep
  \/ ImageStep
  \/ DeployStep
  \/ ContactStart
  \/ ContactStep

\* Every worker goes on taking the jobs that wait in its queue, and every
\* invocation in flight goes on.
SpecLive ==
  /\ LiveInit
  /\ [][NextLive]_vars
  /\ WF_vars(ScrapeStep)
  /\ WF_vars(EnrichStep)
  /\ WF_vars(SiteStep)
  /\ WF_vars(ImageStep)
  /\ WF_vars(DeployStep)
  /\ WF_vars(ContactStart)
  /\ WF_vars(ContactStep)

\* ------------------------------------------------ failing ledger writes

\* What a handler does for a lead once its reads and its provider call are
\* done, in the order of the code: the lead update (the upsert, in Scrape),
\* the event, the enqueue of the next stage.
StageOpsEnqueueFirst == <<"enqueue", "update", "event">>

StageOps == <<"update", "event", "enqueue">>

\* The ledger and the queue as a handler has them at hand.
Ledger(ls, ev, qs) == [leads |-> ls, events |-> ev, queue |-> qs]

\* One operation of processSiteJob, processImageJob or processDeployJob.
StageOp(st, job, op) ==
  LET l == job.lead IN
    IF op = "update"
    THEN [st EXCEPT !.leads[l] =
            IF job.q = "site" THEN SiteLeadUpdate(@)
            ELSE IF job.q = "image" THEN ImageLeadUpdate(@)
            ELSE DeployLeadUpdate(@)]
    ELSE IF op = "event"
    THEN [st EXCEPT !.events =
            IF job.q = "site"
            THEN Event(@, l, "SITE_GENERATED", SiteServices(events[l]), 1)
            ELSE IF job.q = "image" THEN Event(@, l, "IMAGES_READY", 0, 0)
            ELSE Event(@, l, "DEPLOYED", 0, 0)]
    ELSE [st EXCEPT !.queue =
            IF job.q = "site" THEN enqueue(@, "image", l, 0)
            ELSE IF job.q = "image" THEN enqueue(@, "deploy", l, 0)
            ELSE enqueue(@, "email", l, 1)]

\* The operations i .. n of a handler, one after the other.
RECURSIVE StageOpsFrom(_, _, _, _)
StageOpsFrom(st, job, i, n) ==
  IF i > n THEN st
  ELSE StageOpsFrom(StageOp(st, job, StageOps[i]), job, i + 1, n)

\* processSiteJob, processImageJob or processDeployJob whose operation n
\* throws: the operations before it took effect, the handler throws and
\* the queue retries the job.
WriteFault(job, n) ==
  /\ job.q \in {"site", "image", "deploy"}
  /\ BagIn(job, queue)
  /\ leads[job.lead].exists
  /\ job.q = "deploy" => DeployEntry(leads[job.lead], events[job.lead]) = "run"
  /\ n \in 1..Len(StageOps)
  /\ Spend("faults")
  /\ LET st == StageOpsFrom(Ledger(leads, events, queue (-) One(job)),
                            job, 1, n - 1)
     IN /\ leads' = st.leads
        /\ events' = st.events
        /\ queue' = RetryQueue(st.queue, job)
        /\ failed' = RetryFailed(failed, job)
  /\ UNCHANGED <<reply, campaign, idem, active, runCalls, providerCalls, done>>

\* One operation of processEnrichJob, of the try block with the crawl's
\* result x or of the catch block (x a throw).
EnrichOp(st, job, x, op) ==
  LET l == job.lead IN
    IF op = "update"
    THEN [st EXCEPT !.leads[l] = EnrichLeadUpdate(@, x)]
    ELSE IF op = "event"
    THEN [st EXCEPT !.events = Event(@, l, "LEAD_ENRICHED", x.kw, 0)]
    ELSE [st EXCEPT !.queue = enqueue(@, "site", l, 0)]

RECURSIVE EnrichOpsFrom(_, _, _, _, _)
EnrichOpsFrom(st, job, x, i, n) ==
  IF i > n THEN st
  ELSE EnrichOpsFrom(EnrichOp(st, job, x, StageOps[i]), job, x, i + 1, n)

\* processEnrichJob whose operation n of the try block throws after the
\* crawl yielded x: the catch block runs its own update, event and
\* enqueue; its operation m throws in turn (the handler throws, the queue
\* retries the job), or none does (m past the last: the job completes).
EnrichWriteFault(job, x, n, m) ==
  /\ job.q = "enrich"
  /\ BagIn(job, queue)
  /\ leads[job.lead].exists /\ ~leads[job.lead].doNotContact
  /\ n \in 1..Len(StageOps)
  /\ m \in 1..(Len(StageOps) + 1)
  /\ Spend("faults")
  /\ LET tried == EnrichOpsFrom(Ledger(leads, events, queue (-) One(job)),
                                job, x, 1, n - 1)
         st == EnrichOpsFrom(tried, job, CHOOSE t \in CrawlThrows : TRUE,
                             1, m - 1)
     IN /\ leads' = st.leads
        /\ events' = st.events
        /\ queue' = IF m > Len(StageOps) THEN st.queue
                    ELSE RetryQueue(st.queue, job)
        /\ failed' = IF m > Len(StageOps) THEN failed
                     ELSE RetryFailed(failed, job)
  /\ UNCHANGED <<reply, campaign, idem, active, runCalls, providerCalls, done>>

\* One operation of processScrapeJob for a listing.
ListingOp(st, listing, op) ==
  LET l == UpsertTarget(st.leads, listing) IN
    IF op = "update"
    THEN [st EXCEPT !.leads[l] = upsertLeadFromListing(@, listing)]
    ELSE IF op = "event"
    THEN [st EXCEPT !.events = Event(@, l, "LEAD_SCRAPED", listing.url, 0)]
    ELSE [st EXCEPT !.queue = enqueue(@, "enrich", l, 0)]

RECURSIVE ListingOpsFrom(_, _, _, _)
ListingOpsFrom(st, listing, i, n) ==
  IF i > n THEN st
  ELSE ListingOpsFrom(ListingOp(st, listing, StageOps[i]), listing, i + 1, n)

\* A variant of the loop with no catch in its body: the first throwing
\* operation ends the loop.
RECURSIVE ScrapeLoopAborts(_, _, _, _, _)
ScrapeLoopAborts(listings, i, st, bad, n) ==
  IF i > Len(listings) THEN st
  ELSE IF i = bad THEN ListingOpsFrom(st, listings[i], 1, n - 1)
  ELSE ScrapeLoopAborts(listings, i + 1,
         ListingOpsFrom(st, listings[i], 1, Len(StageOps)), bad, n)

\* The loop of processScrapeJob when operation n throws for listing bad:
\* the catch of the loop body counts the failure and the loop goes on.
RECURSIVE ScrapeLoopFault(_, _, _, _, _)
ScrapeLoopFault(listings, i, st, bad, n) ==
  IF i > Len(listings) THEN st
  ELSE ScrapeLoopFault(listings, i + 1,
         ListingOpsFrom(st, listings[i], 1,
                        IF i = bad THEN n - 1 ELSE Len(StageOps)),
         bad, n)

\* processScrapeJob with one listing's operation n throwing: the job
\* completes all the same.
ScrapeWriteFault(job, bad, n) ==
  /\ job.q = "scrape"
  /\ BagIn(job, queue)
  /\ bad \in 1..Len(scrapeListings(campaign.limit))
  /\ n \in 1..Len(StageOps)
  /\ Spend("faults")
  /\ LET st == ScrapeLoopFault(scrapeListings(campaign.limit), 1,
                               Ledger(leads, events, queue (-) One(job)),
                               bad, n)
     IN /\ leads' = st.leads
        /\ events' = st.events
        /\ queue' = st.queue
  /\ campaign' = [campaign EXCEPT !.status = "RUNNING"]
  /\ UNCHANGED <<reply, idem, failed, active, runCalls, providerCalls, done>>

WriteFaults ==
  \/ \E job \in BagToSet(queue) : \E n \in 1..Len(StageOps) :
       WriteFault(job, n)
  \/ \E job \in BagToSet(queue) : \E x \in CrawlOutcomes :
       \E n \in 1..Len(StageOps) : \E m \in 1..(Len(StageOps) + 1) :
         EnrichWriteFault(job, x, n, m)
  \/ \E job \in BagToSet(queue) : \E n \in 1..Len(StageOps) :
       ScrapeWriteFault(job, 1, n)
  \/ \E a \in BagToSet(active) : StageFault(a)

NextWrites == NextNoFault \/ WriteFaults

\* The whole pipeline of a campaign with throwing ledger writes.
SpecWrites == Init /\ [][NextWrites]_vars

\* --------------------------------- the Scrape stage, with failing listings

\* A ListingRecord whose websiteUrl is null (url 0), as the type allows.
listingWithoutWebsite(n) == [mockListing(n) EXCEPT !.url = 0]

\* A ListingsProvider that knows no website of the businesses it lists.
scrapeListingsNoWebsite(limit) ==
  [n \in 1..Max(1, limit) |-> listingWithoutWebsite(n)]

\* processScrapeJob with the listings of such a provider.
processScrapeJobNoWebsite(job) ==
  ScrapeWith(job, scrapeListingsNoWebsite(campaign.limit))

\* successCount and failureCount of processScrapeJob when listing bad
\* throws: the try block counts a success at its end, the catch a failure.
RECURSIVE ScrapeTally(_, _, _, _)
ScrapeTally(listings, i, bad, tally) ==
  IF i > Len(listings) THEN tally
  ELSE ScrapeTally(listings, i + 1, bad,
         IF i = bad
         THEN [tally EXCEPT !.failureCount = @ + 1]
         ELSE [tally EXCEPT !.successCount = @ + 1])

\* Rows of the Lead table: every run of the Scrape job may insert a row per
\* listing without a website, besides the rows of the listings with one.
BatchRows == (MaxDisturb + 2) * MaxBatch

\* createCampaignHandler has run for a campaign of any limit up to MaxBatch.
BatchInit ==
  /\ campaign \in [status : {"RUNNING"}, limit : minLimit..MaxBatch]
  /\ leads = [l \in 1..BatchRows |-> NoLead]
  /\ events = Event([e \in {0} \cup 1..BatchRows |-> NoEvents],
                    0, "CAMPAIGN_CREATED", 0, 0)
  /\ idem = [k \in Keys |-> NoRow]
  /\ queue = One(Job("scrape", 0, 0, 0))
  /\ failed = EmptyBag
  /\ active = EmptyBag
  /\ runCalls = [k \in Keys |-> 0]
  /\ providerCalls = [k \in Keys |-> 0]
  /\ done = [k \in Keys |-> 0]
  /\ used = [regens |-> 0, webhooks |-> 0, redeliver |-> 0, faults |-> 0]
  /\ reply = ""

NextBatch ==
  \/ \E job \in BagToSet(queue) : processScrapeJob(job)
  \/ \E job \in BagToSet(queue) : processScrapeJobNoWebsite(job)
  \/ \E job \in BagToSet(queue) : \E bad \in 1..MaxBatch :
       \E n \in 1..Len(StageOps) : ScrapeWriteFault(job, bad, n)
  \/ \E job \in BagToSet(queue) : job.q = "scrape" /\ Redeliver(job)

\* The Scrape job of a small campaign, its duplicate deliveries and the
\* throwing operations of its loop, before any Enrich job runs.
SpecBatch == BatchInit /\ [][NextBatch]_vars

\* ------------------------------------------- the contact stages, crashing

\* The worker process dies while an invocation is between the insert of its
\* claim row and the commit of its result: no catch block runs, the row
\* stays as it is, and the queue, finding the job stalled, delivers it again.
Crash(a) ==
  /\ BagIn(a, active)
  /\ a.pc \in BodyPcs
  /\ active' = active (-) One(a)
  /\ queue' = queue (+) One(a.job)
  /\ UNCHANGED <<reply, campaign, leads, events, idem, failed, runCalls,
                 providerCalls, done, used>>

NextCrash ==
  \/ StageSteps
  \/ \E a \in BagToSet(active) : Crash(a)

\* The Email and Call stages of a deployed lead with worker crashes.
SpecCrash == StageInit /\ [][NextCrash]_vars

\* --------------------------------------- the pipeline, retried to the end

\* The provider call of Site, Image or Deploy throws, as often as the
\* queue delivers the job.
ProviderThrows(job) ==
  /\ job.q \in {"site", "image", "deploy"}
  /\ BagIn(job, queue)
  /\ leads[job.lead].exists
  /\ job.q = "deploy" => DeployEntry(leads[job.lead], events[job.lead]) = "run"
  /\ Throws(job)
  /\ UNCHANGED used

\* An operation of run() or the result update throws in an Email or Call
\* invocation, as often as the queue delivers the job.
StageThrows(a) ==
  /\ BagIn(a, active)
  /\ a.pc \in BodyPcs
  /\ runCalls' = IF a.pc = "run"
                 THEN [runCalls EXCEPT ![idemKey(a.job)] = @ + 1]
                 ELSE runCalls
  /\ idem' = [idem EXCEPT ![idemKey(a.job)] = RollbackRow(@)]
  /\ active' = active (-) One(a)
  /\ queue' = RetryQueue(queue, a.job)
  /\ failed' = RetryFailed(failed, a.job)
  /\ UNCHANGED <<reply, campaign, leads, events, providerCalls, done, used>>

Throwing ==
  \/ \E job \in BagToSet(queue) : ProviderThrows(job)
  \/ \E job \in BagToSet(queue) : \E x \in CrawlThrows :
       processEnrichJob(job, x)
  \/ \E a \in BagToSet(active) : StageThrows(a)

NextRetry == NextLive \/ Throwing

\* One campaign, each job delivered once per attempt, any operation
\* throwing any number of times, no webhook, no regeneration request and
\* no second Scrape; the workers go on taking the waiting jobs.
SpecRetry ==
  /\ Init
  /\ [][NextRetry]_vars
  /\ WF_vars(ScrapeStep)
  /\ WF_vars(EnrichStep)
  /\ WF_vars(SiteStep)
  /\ WF_vars(ImageStep)
  /\ WF_vars(DeployStep)
  /\ WF_vars(ContactStart)
  /\ WF_vars(ContactStep)

\* ------------------------------------------------------------ properties

\* The lead's counter of a key's stage, and the stage's events of the key.
StageCount(ls, k) ==
  IF k.stage = "email" THEN ls[k.lead].emailSentCount
  ELSE ls[k.lead].callAttempts

StageEvents(ev, k) ==
  SelectSeq(ev[k.lead][IF k.stage = "email" THEN "EMAIL_SENT"
                       ELSE "CALL_PLACED"],
            LAMBDA e : e.a = k.n)

\* Invocation a is at position pc after this step and was not before it.
Arrives(a, pc) == a.pc = pc /\ CopiesIn(a, active') > CopiesIn(a, active)

\* Invocation a leaves its position in this step.
Leaves(a) == CopiesIn(a, active') < CopiesIn(a, active)

\* This step is a throw of the stage body of invocation a.
BodyThrows(a) ==
  /\ a.pc \in BodyPcs
  /\ Leaves(a)
  /\ used'.faults = used.faults + 1

\* C1: once a key's first delivery has committed its result, a further
\* delivery of the job makes no provider call, does not call run, does not
\* raise the lead's counter and writes no stage event, and an invocation of
\* runIdempotentStage that returns for the key reports executed = false
\* with the stored result; when no operation threw, the provider was
\* invoked exactly once for the key.
C1_SecondDeliveryReplays ==
  /\ [](\A k \in Keys :
          (idem[k].hasValue /\ used.faults = 0) => providerCalls[k] = 1)
  /\ [][\A k \in Keys : idem[k].hasValue =>
          /\ providerCalls'[k] = providerCalls[k]
          /\ runCalls'[k] = runCalls[k]
          /\ StageCount(leads', k) = StageCount(leads, k)
          /\ StageEvents(events', k) = StageEvents(events, k)
          /\ \A a \in BagToSet(active') :
               (idemKey(a.job) = k /\ Arrives(a, "returned"))
                 => (~a.executed /\ a.result = idem[k].value)]_vars

\* A second delivery of a Call job has been answered from the store.
C1_Witness ==
  \E a \in BagToSet(active) :
    /\ a.job.q = "call"
    /\ a.pc = "returned" /\ ~a.executed /\ a.result = 1
    /\ idem[idemKey(a.job)].hasValue /\ idem[idemKey(a.job)].value = 1
    /\ providerCalls[idemKey(a.job)] = 1
    /\ leads[a.job.lead].callAttempts = 1
    /\ used.faults = 0

\* C2: the provider is successfully invoked at most once for each key.
C2_ProviderAtMostOnce == \A k \in Keys : providerCalls[k] <= 1

\* C3: without a throwing operation, however two invocations of the same
\* job interleave, the provider is invoked at most once per key, the lead's
\* counter is at most the number of keys of the stage the provider was
\* invoked for, and no step deletes or changes a row of the store that it
\* did not insert (the loser of the claim leaves the winner's row).
C3_ConcurrentDeliveries ==
  /\ [](used.faults = 0 =>
          /\ \A k \in Keys : providerCalls[k] <= 1
          /\ \A l \in LeadIds :
               /\ leads[l].emailSentCount
                    <= Cardinality({k \in Keys : k.stage = "email"
                                      /\ k.lead = l /\ providerCalls[k] > 0})
               /\ leads[l].callAttempts
                    <= Cardinality({k \in Keys : k.stage = "call"
                                      /\ k.lead = l /\ providerCalls[k] > 0}))
  /\ [][used'.faults = 0 =>
          \A k \in Keys :
            /\ idem[k].present => idem'[k].present
            /\ idem[k].hasValue => idem'[k] = idem[k]
            /\ \A a \in BagToSet(active) :
                 (idemKey(a.job) = k /\ a.pc = "claim" /\ Leaves(a)
                    /\ idem[k].present)
                   => idem' = idem]_vars

\* Two invocations of one Email job were in flight; one sent the email and
\* the other lost the claim and was handed back to the queue.
C3_Witness ==
  /\ used.faults = 0
  /\ providerCalls[[stage |-> "email", lead |-> 1, n |-> 1]] = 1
  /\ leads[1].emailSentCount = 1
  /\ BagIn(Job("email", 1, 1, 1), queue)

\* C4: after runIdempotentStage returned executed = true with result r for
\* a key, the row of the key holds r, and every invocation that looks the
\* key up afterwards returns executed = false with r without calling run.
C4_ReplayAfterSuccess ==
  /\ [](\A k \in Keys :
          done[k] # 0 => (idem[k].hasValue /\ idem[k].value = done[k]))
  /\ [][\A a \in BagToSet(active) :
          LET k == idemKey(a.job) IN
            (a.pc = "lookup" /\ Leaves(a) /\ done[k] # 0) =>
              /\ active' = (active (-) One(a))
                             (+) One([a EXCEPT !.pc = "returned",
                                               !.executed = FALSE,
                                               !.result = done[k]])
              /\ runCalls' = runCalls
              /\ providerCalls' = providerCalls
              /\ idem' = idem]_vars

\* An invocation returned executed = true and a later one the same result
\* with executed = false, both still to be logged by their handlers.
C4_Witness ==
  \E a, b \in BagToSet(active) :
    /\ idemKey(a.job) = idemKey(b.job)
    /\ a.pc = "returned" /\ a.executed
    /\ b.pc = "returned" /\ ~b.executed
    /\ b.result = a.result /\ a.result # 0
    /\ runCalls[idemKey(a.job)] = 1

\* C5: an invocation that finds the key's row without a committed result
\* returns executed = false with result null (0), does not call run, and
\* leaves the store as it is.
C5_InFlightKey ==
  [][\A a \in BagToSet(active) :
       LET k == idemKey(a.job) IN
         (a.pc = "lookup" /\ Leaves(a)
            /\ idem[k].present /\ ~idem[k].hasValue) =>
           /\ active' = (active (-) One(a))
                          (+) One([a EXCEPT !.pc = "returned",
                                            !.executed = FALSE,
                                            !.result = 0])
           /\ idem' = idem
           /\ runCalls' = runCalls
           /\ providerCalls' = providerCalls
           /\ UNCHANGED <<leads, events, queue, failed>>]_vars

\* An invocation returned executed = false with null while another holds
\* the claim of the key and is inside run.
C5_Witness ==
  \E a, b \in BagToSet(active) :
    /\ idemKey(a.job) = idemKey(b.job)
    /\ a.pc = "returned" /\ ~a.executed /\ a.result = 0
    /\ b.pc \in BodyPcs
    /\ idem[idemKey(a.job)] = ClaimRow

\* C6: when the stage body of an invocation throws, the key's row is
\* deleted and the error reaches the queue (the job is retried, or kept as
\* failed after its last attempt); an invocation that then finds no row
\* inserts a new claim and goes on to run.
C6_FailureReleasesClaim ==
  [][\A a \in BagToSet(active) :
       LET k == idemKey(a.job) IN
         /\ BodyThrows(a) =>
              /\ idem'[k] = NoRow
              /\ \/ /\ a.job.tries + 1 < attempts
                    /\ queue' = queue (+) One([a.job EXCEPT !.tries = @ + 1])
                    /\ failed' = failed
                 \/ /\ a.job.tries + 1 >= attempts
                    /\ failed' = failed (+) One([a.job EXCEPT !.tries = @ + 1])
                    /\ queue' = queue
         /\ (a.pc = "lookup" /\ Leaves(a) /\ ~idem[k].present) =>
              active' = (active (-) One(a)) (+) One(At(a, "claim"))
         /\ (a.pc = "claim" /\ Leaves(a) /\ ~idem[k].present) =>
              /\ idem'[k] = ClaimRow
              /\ active' = (active (-) One(a)) (+) One(At(a, "run"))]_vars

\* After a throw released the key, the retried job claimed it again and
\* run was called a second time.
C6_Witness ==
  \E a \in BagToSet(active) :
    /\ a.job.tries = 1
    /\ a.pc = "update"
    /\ runCalls[idemKey(a.job)] = 2
    /\ idem[idemKey(a.job)] = ClaimRow
    /\ used.faults = 1

\* C7: no step moves a lead's status to an earlier position of the order
\* NEW < SCRAPED < ... < BOOKED.
C7_StatusNeverMovesBack ==
  [][\A l \in LeadIds :
       (leads[l].exists /\ Rank(leads[l].status) > 0
          /\ Rank(leads'[l].status) > 0)
         => Rank(leads'[l].status) >= Rank(leads[l].status)]_vars

\* C8: an Email or Call invocation that starts when the lead's doNotContact
\* is true only completes its job: no provider call, no write to the lead,
\* no event, no enqueue, no retry and no failure.
C8_OptedOutStageIsNoOp ==
  [][\A job \in BagToSet(queue) :
       (/\ job.q \in {"email", "call"}
        /\ leads[job.lead].doNotContact
        /\ CopiesIn(job, queue') < CopiesIn(job, queue))
         => /\ queue' = queue (-) One(job)
            /\ UNCHANGED <<campaign, leads, events, idem, failed, active,
                           runCalls, providerCalls, done>>]_vars

\* The Email job of an opted-out lead was taken and completed: nothing is
\* queued, in flight or failed, and run was never called.
C8_Witness ==
  /\ leads[1].doNotContact
  /\ queue = EmptyBag /\ active = EmptyBag /\ failed = EmptyBag
  /\ \A k \in Keys : runCalls[k] = 0 /\ providerCalls[k] = 0
  /\ leads[1].emailSentCount = 0
  /\ ~HasEvent(events[1], "EMAIL_SENT")

\* C9: no handler enqueues an Email or Call job for a lead whose
\* doNotContact is true when the job is added.
C9_NoEnqueueForOptedOut ==
  [][\A l \in LeadIds : \A q \in {"email", "call"} : \A n \in Steps :
       (/\ CopiesIn(Job(q, l, n, 0), queue') > CopiesIn(Job(q, l, n, 0), queue)
        /\ used'.redeliver = used.redeliver)
         => ~leads[l].doNotContact]_vars

\* C10: a lead's doNotContact, once true, stays true.
C10_DoNotContactSticky ==
  [][\A l \in LeadIds :
       leads[l].doNotContact => leads'[l].doNotContact]_vars

\* An opted-out lead whose row a later stage or a second Scrape wrote.
C10_Witness ==
  \E l \in LeadIds :
    /\ leads[l].doNotContact
    /\ leads[l].status \in {"SCRAPED", "SITE_GENERATED", "IMAGES_READY",
                            "DEPLOYED", "EMAILED_1", "CALLED_1"}

\* C11: a lead whose status is DO_NOT_CONTACT keeps that status in every
\* step.
C11_DoNotContactAbsorbing ==
  [][\A l \in LeadIds :
       leads[l].status = "DO_NOT_CONTACT"
         => leads'[l].status = "DO_NOT_CONTACT"]_vars

\* The leads of the campaign whose websiteUrl is u.
LeadsWithUrl(ls, u) == {l \in DOMAIN ls : ls[l].exists /\ ls[l].url = u}

\* C12: no two leads of the campaign have the same non-null websiteUrl, and
\* a Scrape step keeps every existing lead row and its websiteUrl, so a
\* listing whose websiteUrl exists already is written to that row and the
\* number of leads with the websiteUrl stays 1.
C12_WebsiteUrlUnique ==
  /\ [](\A l, m \in LeadIds :
          (leads[l].exists /\ leads[m].exists /\ leads[l].url # 0
             /\ leads[l].url = leads[m].url) => l = m)
  /\ [][\A l \in LeadIds : leads[l].exists =>
          /\ leads'[l].exists
          /\ leads'[l].url = leads[l].url
          /\ (leads[l].url # 0 =>
                Cardinality(LeadsWithUrl(leads', leads[l].url)) = 1)]_vars

\* The Scrape job ran twice and met the websiteUrl of lead 1 both times:
\* one row, two LEAD_SCRAPED events.
C12_Witness ==
  /\ leads[1].exists /\ leads[1].url # 0
  /\ Len(events[1]["LEAD_SCRAPED"]) = 2
  /\ Cardinality(LeadsWithUrl(leads, leads[1].url)) = 1
  /\ Cardinality({l \in LeadIds : leads[l].exists}) >= 2

\* The Scrape job has run once, was delivered once, and no Enrich job ran.
ScrapeRanOnce ==
  /\ used.redeliver = 0
  /\ ~BagIn(Job("scrape", 0, 0, 0), queue)
  /\ \A l \in LeadIds : ~HasEvent(events[l], "LEAD_ENRICHED")

Existing == {l \in LeadIds : leads[l].exists}

\* The listings came from the mock provider (hosts under example.com).
FromMock == \A l \in Existing : isMockWebsiteUrl(leads[l].url)

\* What every single Scrape run establishes: all leads SCRAPED with
\* pairwise distinct websiteUrl, one LEAD_SCRAPED event and one queued
\* Enrich job per lead, and nothing else queued.
ScrapedBatch ==
  /\ \A l \in Existing :
       /\ leads[l].status = "SCRAPED"
       /\ Len(events[l]["LEAD_SCRAPED"]) = 1
       /\ CopiesIn(Job("enrich", l, 0, 0), queue) = 1
       /\ \A m \in Existing : leads[m].url = leads[l].url => m = l
  /\ BagCardinality(queue) = Cardinality(Existing)

\* C13 as stated, for the mock provider: after the single Scrape run of a
\* campaign with limit n there are exactly n leads.
C13_ExactlyLimitLeads ==
  (ScrapeRanOnce /\ FromMock) =>
    (ScrapedBatch /\ Cardinality(Existing) = campaign.limit)

\* C13, amended: after the single Scrape run of a campaign with limit n,
\* the leads are a batch as above; with the mock provider there are exactly
\* min(n, 25) of them, with the listings of a web search at least one and
\* at most min(n, 100).
C13_LimitCappedLeads ==
  ScrapeRanOnce =>
    /\ ScrapedBatch
    /\ FromMock =>
         Cardinality(Existing) = Min(campaign.limit, mockMaxListings)
    /\ ~FromMock =>
         /\ Cardinality(Existing) >= 1
         /\ Cardinality(Existing) <= Min(campaign.limit, searchMaxListings)

\* A campaign with a limit above 25 was scraped once from the mock
\* provider: 25 leads.
C13_Witness ==
  /\ ScrapeRanOnce /\ FromMock
  /\ campaign.limit > mockMaxListings
  /\ Cardinality(Existing) = mockMaxListings
  /\ ScrapedBatch

CallJobsAdded(l) ==
  IF used'.redeliver = used.redeliver
  THEN CopiesIn(Job("call", l, 1, 0), queue')
         - CopiesIn(Job("call", l, 1, 0), queue)
  ELSE 0

\* C15: when no operation throws, at most one Email step-1 invocation of a
\* lead sends, and it adds one Call job {lead, attempt 1} after its lead
\* update and its EMAIL_SENT event; no other step adds such a job; once the
\* step-1 key is committed no further Call job is added and emailSentCount
\* stays 1.
C15_OneFollowUpCall ==
  /\ [](used.faults = 0 =>
          \A l \in LeadIds :
            /\ Len(events[l]["EMAIL_SENT"]) <= 1
            /\ leads[l].emailSentCount <= 1)
  /\ [][\A l \in LeadIds :
          /\ CallJobsAdded(l) > 0 =>
               /\ CallJobsAdded(l) = 1
               /\ \E a \in BagToSet(active) :
                    /\ a.job.q = "email" /\ a.job.lead = l
                    /\ a.pc = "enqueue"
                    /\ active' = (active (-) One(a)) (+) One(At(a, "commit"))
                    /\ leads[l].emailSentCount >= a.job.n
                    /\ \E i \in 1..Len(events[l]["EMAIL_SENT"]) :
                         events[l]["EMAIL_SENT"][i]
                           = [a |-> a.job.n, b |-> a.res]
          /\ \A a \in BagToSet(active) :
               (a.job.lead = l /\ a.pc = "enqueue" /\ Leaves(a)
                  /\ ~BodyThrows(a))
                 => CallJobsAdded(l) = 1
          /\ idem[[stage |-> "email", lead |-> l, n |-> 1]].hasValue =>
               /\ (used.faults = 0 => CallJobsAdded(l) <= 0)
               /\ (used.faults = 0 => leads[l].emailSentCount = 1)
               /\ leads'[l].emailSentCount = leads[l].emailSentCount]_vars

\* Email step 1 was sent, its job was delivered a second time and skipped,
\* and one Call job waits.
C15_Witness ==
  /\ used = [regens |-> 0, webhooks |-> 0, redeliver |-> 1, faults |-> 0]
  /\ done[[stage |-> "email", lead |-> 1, n |-> 1]] # 0
  /\ leads[1].emailSentCount = 1
  /\ queue = One(Job("call", 1, 1, 0))
  /\ active = EmptyBag
  /\ providerCalls[[stage |-> "call", lead |-> 1, n |-> 1]] = 0

\* C16: a Call invocation that starts when the lead's callAttempts is 2 or
\* more only completes its job: it does not enter runIdempotentStage (no
\* claim row, no provider call), writes neither the lead nor an event, and
\* is neither retried nor failed.
C16_CallCapIsNoOp ==
  [][\A job \in BagToSet(queue) :
       (/\ job.q = "call"
        /\ leads[job.lead].exists
        /\ leads[job.lead].callAttempts >= maxCallAttempts
        /\ CopiesIn(job, queue') < CopiesIn(job, queue))
         => /\ queue' = queue (-) One(job)
            /\ UNCHANGED <<campaign, leads, events, idem, failed, active,
                           runCalls, providerCalls, done>>]_vars

\* The Call job placed two calls that each threw afterwards; its third
\* attempt met callAttempts = 2 and completed without a claim.
C16_Witness ==
  /\ used = [regens |-> 0, webhooks |-> 0, redeliver |-> 0, faults |-> 2]
  /\ leads[1].callAttempts = 2
  /\ queue = EmptyBag /\ active = EmptyBag /\ failed = EmptyBag
  /\ ~idem[[stage |-> "call", lead |-> 1, n |-> 1]].present

\* C17: a call webhook naming an existing lead whose transcript contains an
\* opt-out phrase (in any letter case) is answered 200, appends a
\* CALL_RESULT event with optOut true and sets the lead's doNotContact and
\* status DO_NOT_CONTACT, whatever the status was, changing nothing else of
\* the row; on a row that an earlier such webhook left, it changes nothing.
C17_OptOutWebhook ==
  [][\A l \in LeadIds :
       callWebhookHandler(l, <<"please", "REMOVE", "me", "from", "your",
                               "list">>)
         => /\ reply' = "200"
            /\ events'[l]["CALL_RESULT"]
                 = Append(events[l]["CALL_RESULT"], [a |-> 1, b |-> 0])
            /\ leads'[l] = [leads[l] EXCEPT !.doNotContact = TRUE,
                                            !.status = "DO_NOT_CONTACT"]
            /\ (leads[l].doNotContact /\ leads[l].status = "DO_NOT_CONTACT")
                 => leads'[l] = leads[l]]_vars

\* The opt-out webhook was applied twice to a lead.
C17_Witness ==
  /\ leads[1].doNotContact /\ leads[1].status = "DO_NOT_CONTACT"
  /\ events[1]["CALL_RESULT"] = <<[a |-> 1, b |-> 0], [a |-> 1, b |-> 0]>>

\* The number of CALL_RESULT events of the campaign, of all its leads and
\* of none.
RECURSIVE CallResults(_, _)
CallResults(ev, es) ==
  IF es = {} THEN 0
  ELSE LET e == CHOOSE x \in es : TRUE
       IN Len(ev[e]["CALL_RESULT"]) + CallResults(ev, es \ {e})

\* C18: a call webhook request is answered 404 when its leadId matches no
\* lead and 400 when its body is malformed or has neither leadId nor
\* campaignId, with no event and no lead modified; every other request is
\* answered 200 and appends exactly one CALL_RESULT event, and modifies a
\* lead only when a leadId was given and an opt-out was detected.
C18_WebhookResponses ==
  [][\A p \in Payloads : callWebhook(p) =>
       IF p.malformed \/ (p.lead = 0 /\ p.campaign = "none")
       THEN reply' = "400" /\ events' = events /\ leads' = leads
       ELSE IF p.lead # 0 /\ ~(p.lead \in LeadIds /\ leads[p.lead].exists)
       THEN reply' = "404" /\ events' = events /\ leads' = leads
       ELSE /\ reply' = "200"
            /\ CallResults(events', DOMAIN events)
                 = CallResults(events, DOMAIN events) + 1
            /\ leads' # leads =>
                 /\ p.lead # 0
                 /\ Latest(events'[p.lead], "CALL_RESULT").a = 1]_vars

\* C19: a Deploy invocation for a lead whose status is not IMAGES_READY
\* throws before any effect: the lead and the event log are unchanged, no
\* Email job is added, and the job is handed back for its next attempt or
\* kept as failed after the last.
C19_DeployPrecondition ==
  [][\A job \in BagToSet(queue) :
       (/\ job.q = "deploy"
        /\ leads[job.lead].exists
        /\ leads[job.lead].status # "IMAGES_READY"
        /\ CopiesIn(job, queue') < CopiesIn(job, queue))
         => /\ UNCHANGED <<campaign, leads, events, idem, active, runCalls,
                           providerCalls, done>>
            /\ \/ /\ job.tries + 1 < attempts
                  /\ queue' = (queue (-) One(job))
                                (+) One([job EXCEPT !.tries = @ + 1])
                  /\ failed' = failed
               \/ /\ job.tries + 1 >= attempts
                  /\ queue' = queue (-) One(job)
                  /\ failed' = failed (+) One([job EXCEPT !.tries = @ + 1])]_vars

\* A second delivery of the Deploy job met the lead DEPLOYED and threw: it
\* waits for its next attempt, and the lead was deployed once.
C19_Witness ==
  /\ used.faults = 0
  /\ leads[1].status = "DEPLOYED"
  /\ BagIn(Job("deploy", 1, 0, 1), queue)
  /\ Len(events[1]["DEPLOYED"]) = 1
  /\ CopiesIn(Job("email", 1, 1, 0), queue) = 1

\* C20: a Site-Generate invocation for a lead whose status is not ENRICHED,
\* and an Image-Assign invocation for a lead whose status is not
\* SITE_GENERATED, leave the lead and the event log as they are and add no
\* job of the next stage.
C20_SiteImagePreconditions ==
  [][\A job \in BagToSet(queue) :
       (/\ \/ job.q = "site" /\ leads[job.lead].status # "ENRICHED"
           \/ job.q = "image" /\ leads[job.lead].status # "SITE_GENERATED"
        /\ leads[job.lead].exists
        /\ CopiesIn(job, queue') < CopiesIn(job, queue))
         => /\ leads' = leads
            /\ events' = events
            /\ CopiesIn(Job("image", job.lead, 0, 0), queue')
                 <= CopiesIn(Job("image", job.lead, 0, 0), queue)
            /\ CopiesIn(Job("deploy", job.lead, 0, 0), queue')
                 <= CopiesIn(Job("deploy", job.lead, 0, 0), queue)]_vars

\* The job of a handler that threw is handed back for its next attempt, or
\* kept as failed after the last; nothing else is added to a queue.
Retried(job, qs) ==
  \/ /\ job.tries + 1 < attempts
     /\ queue' = qs (+) One([job EXCEPT !.tries = @ + 1])
     /\ failed' = failed
  \/ /\ job.tries + 1 >= attempts
     /\ queue' = qs
     /\ failed' = failed (+) One([job EXCEPT !.tries = @ + 1])

\* C21: when sendEmail or placeCall throws, or deploy throws, the handler
\* throws (the job is retried, or failed after its last attempt), the lead
\* rows and the event log are as they were, no job of the next stage is
\* added, and for Email and Call the key's row is gone; up to its provider
\* call an Email or Call invocation has written neither lead nor event.
C21_ProviderFailureLeavesLedger ==
  [][/\ \A a \in BagToSet(active) :
          /\ (a.pc = "run" /\ BodyThrows(a)) =>
               /\ leads' = leads /\ events' = events
               /\ providerCalls' = providerCalls
               /\ idem'[idemKey(a.job)] = NoRow
               /\ active' = active (-) One(a)
               /\ Retried(a.job, queue)
          /\ (a.pc \in {"lookup", "claim"} /\ Leaves(a)) =>
               leads' = leads /\ events' = events
     /\ \A job \in BagToSet(queue) :
          (job.q = "deploy" /\ ProviderFault(job)) =>
            /\ leads' = leads /\ events' = events
            /\ Retried(job, queue (-) One(job))]_vars

\* sendEmail threw on the first attempt of the Email job: run was called,
\* no email was sent, the key has no row, the lead is as Deploy left it and
\* the job waits for its second attempt.
C21_Witness ==
  /\ runCalls[[stage |-> "email", lead |-> 1, n |-> 1]] = 1
  /\ providerCalls[[stage |-> "email", lead |-> 1, n |-> 1]] = 0
  /\ idem[[stage |-> "email", lead |-> 1, n |-> 1]] = NoRow
  /\ queue = One(Job("email", 1, 1, 1))
  /\ leads[1].status = "DEPLOYED" /\ leads[1].emailSentCount = 0
  /\ ~HasEvent(events[1], "EMAIL_SENT")

\* C22: every step keeps each recorded event, with its content and in its
\* place, and at most appends events after them.
C22_EventLogAppendOnly ==
  [][\A e \in DOMAIN events : \A t \in EventTypes :
       /\ Len(events'[e][t]) >= Len(events[e][t])
       /\ SubSeq(events'[e][t], 1, Len(events[e][t])) = events[e][t]]_vars

\* A lead was enriched again after a regeneration request: the first
\* LEAD_ENRICHED event (no keywords) is still there before the second, and
\* the campaign's CAMPAIGN_CREATED event is as it was written.
C22_Witness ==
  /\ events[1]["LEAD_ENRICHED"] = <<[a |-> 0, b |-> 0], [a |-> 1, b |-> 0]>>
  /\ events[0]["CAMPAIGN_CREATED"] = <<[a |-> 0, b |-> 0]>>
  /\ used.regens = 1

\* C23: no Email or Call invocation calls its provider for a lead whose
\* doNotContact is already true, and when no invocation is in flight a lead
\* with doNotContact true has status DO_NOT_CONTACT.
C23_OptOutRaceSafe ==
  /\ [][\A k \in Keys :
          providerCalls'[k] > providerCalls[k]
            => ~leads[k.lead].doNotContact]_vars
  /\ [](\A l \in LeadIds :
          (active = EmptyBag /\ leads[l].doNotContact)
            => leads[l].status = "DO_NOT_CONTACT")

\* The key's claim row has no result and no invocation is inside the body
\* that could commit or release it: its holder crashed.
Orphaned(k, rows, invs) ==
  /\ rows[k] = ClaimRow
  /\ \A a \in BagToSet(invs) : idemKey(a.job) = k => a.pc \notin BodyPcs

\* C24: a crash inside the stage body leaves the key's claim row without a
\* result; while a key is in that state every step leaves it so, neither
\* calls run nor the provider for the key, and every invocation that looks
\* the key up returns executed = false with result null (0).
C24_OrphanedClaimBlocksKey ==
  [][/\ \A a \in BagToSet(active) :
          Crash(a) => Orphaned(idemKey(a.job), idem', active')
     /\ \A k \in Keys : Orphaned(k, idem, active) =>
          /\ Orphaned(k, idem', active')
          /\ runCalls'[k] = runCalls[k]
          /\ providerCalls'[k] = providerCalls[k]
          /\ \A a \in BagToSet(active) :
               (idemKey(a.job) = k /\ a.pc = "lookup" /\ Leaves(a)) =>
                 active' = (active (-) One(a))
                             (+) One([a EXCEPT !.pc = "returned",
                                               !.executed = FALSE,
                                               !.result = 0])]_vars

\* The worker crashed after sendEmail and before the lead update; the job
\* was delivered again and answered executed = false with null: one email
\* was sent, the lead's counter is 0 and nothing is left to run.
C24_Witness ==
  /\ Orphaned([stage |-> "email", lead |-> 1, n |-> 1], idem, active)
  /\ providerCalls[[stage |-> "email", lead |-> 1, n |-> 1]] = 1
  /\ leads[1].emailSentCount = 0
  /\ queue = EmptyBag
  /\ \E a \in BagToSet(active) :
       a.pc = "returned" /\ ~a.executed /\ a.result = 0

\* A handler adds a new job (no attempt made) for lead l to queue q in this
\* step; duplicate deliveries and regeneration requests are no handlers.
Added(q, l) ==
  /\ used'.redeliver = used.redeliver
  /\ used'.regens = used.regens
  /\ \E n \in {0, 1} :
       CopiesIn(Job(q, l, n, 0), queue') > CopiesIn(Job(q, l, n, 0), queue)

\* The status and the event type that the stage enqueuing into q writes.
EnqueuedBy(q) ==
  IF q = "enrich" THEN [status |-> "SCRAPED", event |-> "LEAD_SCRAPED"]
  ELSE IF q = "site" THEN [status |-> "ENRICHED", event |-> "LEAD_ENRICHED"]
  ELSE IF q = "image"
  THEN [status |-> "SITE_GENERATED", event |-> "SITE_GENERATED"]
  ELSE IF q = "deploy"
  THEN [status |-> "IMAGES_READY", event |-> "IMAGES_READY"]
  ELSE [status |-> "DEPLOYED", event |-> "DEPLOYED"]

\* A step of Scrape, Enrich, Site, Image or Deploy that enqueues the next
\* stage for a lead has written the stage's status and appended its event.
EnqueueShowsWrites ==
  \A l \in LeadIds : \A q \in {"enrich", "site", "image", "deploy", "email"} :
    Added(q, l) =>
      /\ leads'[l].status = EnqueuedBy(q).status
      /\ Len(events'[l][EnqueuedBy(q).event])
           > Len(events[l][EnqueuedBy(q).event])

\* The Call job is added by an Email invocation that is past its lead
\* update and its EMAIL_SENT event.
CallEnqueuedAfterWrites ==
  \A l \in LeadIds : Added("call", l) =>
    \E a \in BagToSet(active) :
      /\ a.job.q = "email" /\ a.job.lead = l /\ a.pc = "enqueue"
      /\ active' = (active (-) One(a)) (+) One(At(a, "commit"))
      /\ leads[l].emailSentCount >= 1
      /\ \E i \in 1..Len(events[l]["EMAIL_SENT"]) :
           events[l]["EMAIL_SENT"][i] = [a |-> a.job.n, b |-> a.res]

\* An invocation of Scrape (for a listing), Site, Image, Deploy or Email in
\* which an operation throws enqueues no next stage for the lead.
FailedWriteNoEnqueue ==
  /\ \A job \in BagToSet(queue) : \A n \in 1..Len(StageOps) :
       /\ WriteFault(job, n) =>
            \A q \in {"image", "deploy", "email"} : ~Added(q, job.lead)
       /\ ScrapeWriteFault(job, 1, n) =>
            \A l \in LeadIds : ~Added("enrich", l)
  /\ \A a \in BagToSet(active) :
       BodyThrows(a) => ~Added("call", a.job.lead)

\* C25 as stated: the next stage is enqueued with the ledger showing the
\* enqueuing stage's status and event, and an invocation in which a ledger
\* write throws enqueues no next stage.
C25_EnqueueOnlyAfterWrites ==
  [][/\ EnqueueShowsWrites
     /\ CallEnqueuedAfterWrites
     /\ \A l \in LeadIds :
          Added("call", l) => leads[l].status = "EMAILED_1"
     /\ FailedWriteNoEnqueue
     /\ \A job \in BagToSet(queue) : \A x \in CrawlOutcomes :
          \A n \in 1..2 : \A m \in 1..(Len(StageOps) + 1) :
            EnrichWriteFault(job, x, n, m) => ~Added("site", job.lead)]_vars

\* C25, amended: a step of Scrape, Enrich, Site, Image or Deploy that
\* enqueues the next stage has written the status and the event; the Call
\* job is added by an Email invocation past its update and event (the
\* status may have been overwritten since); a throwing operation in
\* Scrape, Site, Image, Deploy or Email means no enqueue; in Enrich a
\* throwing operation of the try block hands over to the catch block,
\* which enqueues the Site job exactly when its own update and event
\* succeeded.
C25_EnqueueAfterOwnWrites ==
  [][/\ EnqueueShowsWrites
     /\ CallEnqueuedAfterWrites
     /\ FailedWriteNoEnqueue
     /\ \A job \in BagToSet(queue) : \A x \in CrawlOutcomes :
          \A n \in 1..Len(StageOps) : \A m \in 1..(Len(StageOps) + 1) :
            EnrichWriteFault(job, x, n, m) =>
              (Added("site", job.lead) <=> m > Len(StageOps))]_vars

\* A write of Enrich's try block threw; the catch block wrote the lead and
\* the event of the fallback and enqueued the Site job.
C25_Witness ==
  /\ used.faults = 1
  /\ leads[1].status = "ENRICHED" /\ leads[1].lastError = "error"
  /\ events[1]["LEAD_ENRICHED"] = <<[a |-> 0, b |-> 0]>>
  /\ queue = One(Job("site", 1, 0, 0))

\* The stage that writes status s has written lead l in this step: its
\* event was appended (Scrape .. Deploy), or an invocation of it did its
\* lead update (Email, Call).
WrittenByStageOf(s, l) ==
  IF s \in {"SCRAPED", "ENRICHED", "SITE_GENERATED", "IMAGES_READY",
            "DEPLOYED"}
  THEN LET t == IF s = "SCRAPED" THEN "LEAD_SCRAPED"
                ELSE IF s = "ENRICHED" THEN "LEAD_ENRICHED"
                ELSE s
       IN Len(events'[l][t]) > Len(events[l][t])
  ELSE IF s \in {"EMAILED_1", "CALLED_1"}
  THEN \E a \in BagToSet(active) :
         /\ a.job.lead = l /\ a.pc = "update"
         /\ a.job.q = (IF s = "EMAILED_1" THEN "email" ELSE "call")
         /\ active' = (active (-) One(a)) (+) One(At(a, "event"))
  ELSE FALSE

\* C26: a step that changes a lead's status to one of SCRAPED .. CALLED_1
\* is a step of the one stage that writes this status, and a stage that
\* writes a lead moves its status to the next position of the order.
C26_OneWriterNextStatus ==
  [][\A l \in LeadIds :
       /\ (leads'[l].status # leads[l].status
             /\ leads'[l].status # "DO_NOT_CONTACT")
            => WrittenByStageOf(leads'[l].status, l)
       /\ \A s \in {"SCRAPED", "ENRICHED", "SITE_GENERATED", "IMAGES_READY",
                    "DEPLOYED", "EMAILED_1", "CALLED_1"} :
            (WrittenByStageOf(s, l) /\ leads'[l].status = s)
              => Rank(s) = Rank(leads[l].status) + 1]_vars

\* The successful placeCall invocations made for lead l, over its keys.
CallsPlaced(l) ==
  providerCalls[[stage |-> "call", lead |-> l, n |-> 1]]
    + providerCalls[[stage |-> "call", lead |-> l, n |-> 2]]

\* C27: in every state every lead's callAttempts is at most 2 and at most 2
\* calls have been placed for it.
C27_CallAttemptCap ==
  \A l \in LeadIds :
    /\ leads[l].callAttempts <= maxCallAttempts
    /\ CallsPlaced(l) <= maxCallAttempts

\* C28: an Email invocation for a lead with no email address, and a Call
\* invocation for a lead with no phone number, complete their job (no retry,
\* no failure) and leave the condition in the lead's lastError; the skipped
\* Email still adds the follow-up Call job.
C28_MissingContactRecorded ==
  [][\A job \in BagToSet(queue) :
       LET l == job.lead IN
         (/\ CopiesIn(job, queue') < CopiesIn(job, queue)
          /\ leads[l].exists /\ ~leads[l].doNotContact
          /\ \/ job.q = "email" /\ ~leads[l].email
             \/ job.q = "call" /\ ~leads[l].phone)
           => /\ failed' = failed
              /\ CopiesIn([job EXCEPT !.tries = @ + 1], queue')
                   = CopiesIn([job EXCEPT !.tries = @ + 1], queue)
              /\ leads'[l].lastError # "null"
              /\ job.q = "email" =>
                   CopiesIn(Job("call", l, 1, 0), queue')
                     = CopiesIn(Job("call", l, 1, 0), queue) + 1]_vars

\* C29: in the undisturbed run every change of a lead's status is a move to
\* the next status of the order NEW, SCRAPED, ENRICHED, SITE_GENERATED,
\* IMAGES_READY, DEPLOYED, EMAILED_1, CALLED_1; the Scrape discovers the
\* leads of the campaign, and every discovered lead reaches CALLED_1 and
\* stays there.
C29_PipelineCompletes ==
  /\ [][\A l \in LeadIds :
          leads'[l].status # leads[l].status
            => /\ Rank(leads'[l].status) = Rank(leads[l].status) + 1
               /\ Rank(leads'[l].status) <= Rank("CALLED_1")]_vars
  /\ <>(\A l \in 1..LiveLeads : l <= campaign.limit => leads[l].exists)
  /\ \A l \in 1..LiveLeads :
       leads[l].exists ~> [](leads[l].status = "CALLED_1")

\* Both leads of a campaign of limit 2 have been emailed and called once,
\* and no job is left.
C29_Witness ==
  /\ campaign.limit = LiveLeads
  /\ \A l \in 1..LiveLeads :
       /\ leads[l].status = "CALLED_1"
       /\ leads[l].emailSentCount = 1 /\ leads[l].callAttempts = 1
       /\ Len(events[l]["CALL_PLACED"]) = 1
  /\ queue = EmptyBag /\ active = EmptyBag /\ failed = EmptyBag

\* The last element of a non-empty sequence.
Last(seq) == seq[Len(seq)]

\* C30: the SITE_GENERATED event that a Site invocation appends was built
\* from the serviceKeywords of the last LEAD_ENRICHED event the lead had
\* (from the empty list, 0, when it had none); a Deploy invocation for a
\* lead with no SITE_GENERATED event throws before any effect, and one that
\* deploys found the bundle in the last SITE_GENERATED event.
C30_LatestEventIsUsed ==
  [][\A job \in BagToSet(queue) :
       LET l == job.lead
           enriched == events[l]["LEAD_ENRICHED"]
           generated == events[l]["SITE_GENERATED"]
       IN (/\ job.q \in {"site", "deploy"}
           /\ CopiesIn(job, queue') < CopiesIn(job, queue)
           /\ leads[l].exists) =>
            /\ (job.q = "site"
                  /\ Len(events'[l]["SITE_GENERATED"]) > Len(generated)) =>
                 Last(events'[l]["SITE_GENERATED"]).a
                   = (IF Len(enriched) = 0 THEN 0 ELSE Last(enriched).a)
            /\ (job.q = "deploy" /\ Len(generated) = 0) =>
                 /\ leads' = leads /\ events' = events
                 /\ Retried(job, queue (-) One(job))
            /\ (job.q = "deploy"
                  /\ Len(events'[l]["DEPLOYED"]) > Len(events[l]["DEPLOYED"])) =>
                 /\ Len(generated) > 0
                 /\ Last(generated).b # 0]_vars

\* A lead was enriched with no keywords, then again (after a regeneration
\* request) with keywords; the Site invocation that followed built the
\* site from the keywords of the second event.
C30_Witness ==
  /\ events[1]["LEAD_ENRICHED"] = <<[a |-> 0, b |-> 0], [a |-> 1, b |-> 0]>>
  /\ Len(events[1]["SITE_GENERATED"]) >= 1
  /\ Last(events[1]["SITE_GENERATED"]).a = 1
  /\ leads[1].status = "SITE_GENERATED"

\* The Lead rows holding the website of a listing.
RowsOf(ls, listing) == {l \in DOMAIN ls : ls[l].exists /\ ls[l].url = listing.url}

\* Listing i of a Scrape run went through the whole loop body: its row is
\* SCRAPED, its LEAD_SCRAPED event is appended and its Enrich job enqueued.
ListingProcessed(listing) ==
  \E l \in RowsOf(leads', listing) :
    /\ leads'[l].status = "SCRAPED"
    /\ Len(events'[l]["LEAD_SCRAPED"]) = Len(events[l]["LEAD_SCRAPED"]) + 1
    /\ CopiesIn(Job("enrich", l, 0, 0), queue')
         = CopiesIn(Job("enrich", l, 0, 0), queue) + 1

\* C31: when the upsert, the LEAD_SCRAPED event write or the Enrich enqueue
\* throws for one listing of a Scrape job, the job does not fail: every
\* other listing is processed in full, the job leaves the queue without a
\* retry and without being recorded as failed, the campaign status is
\* RUNNING, successCount + failureCount is the number of listings, and
\* successCount Enrich jobs were enqueued.
C31_ListingFailureIsContained ==
  [][\A job \in BagToSet(queue) : \A bad \in 1..MaxBatch :
       \A n \in 1..Len(StageOps) :
         ScrapeWriteFault(job, bad, n) =>
           LET listings == scrapeListings(campaign.limit)
               tally == ScrapeTally(listings, 1, bad,
                          [successCount |-> 0, failureCount |-> 0])
           IN /\ \A i \in 1..Len(listings) :
                   i # bad => ListingProcessed(listings[i])
              /\ CopiesIn(job, queue') = CopiesIn(job, queue) - 1
              /\ CopiesIn([job EXCEPT !.tries = @ + 1], queue')
                   = CopiesIn([job EXCEPT !.tries = @ + 1], queue)
              /\ failed' = failed
              /\ campaign'.status = "RUNNING"
              /\ tally.successCount + tally.failureCount = Len(listings)
              /\ tally.failureCount = 1
              /\ BagCardinality(queue')
                   = BagCardinality(queue) - 1 + tally.successCount]_vars

\* The second of three listings failed at its upsert in the only run of
\* the Scrape job: the two others are rows with an Enrich job each.
C31_Witness ==
  /\ campaign.limit = 3
  /\ used.faults = 1 /\ used.redeliver = 0
  /\ queue = One(Job("enrich", 1, 0, 0)) (+) One(Job("enrich", 2, 0, 0))
  /\ failed = EmptyBag
  /\ {leads[l].url : l \in Existing} = {1, 3}
  /\ \A l \in Existing : Len(events[l]["LEAD_SCRAPED"]) = 1

\* An earlier run of the Scrape job went through these listings, and no
\* operation of a run threw: the rows of the table hold their websites.
ScrapedBefore(listings) ==
  /\ used.faults = 0
  /\ Existing # {}
  /\ {leads[l].url : l \in Existing}
       = {listings[i].url : i \in 1..Len(listings)}

C34_CommittedRowIsPermanent ==
  /\ [][\A k \in Keys : idem[k].hasValue => idem'[k] = idem[k]]_vars
  /\ [](\A k \in Keys : done[k] # 0 => idem[k] = ResultRow(done[k]))

\* The Email key is committed; a concurrent invocation of the job had lost
\* the claim and its retry is waiting, and the Call stage of the lead had
\* an operation throw.
C34_Witness ==
  /\ idem[[stage |-> "email", lead |-> 1, n |-> 1]].hasValue
  /\ BagIn(Job("email", 1, 1, 1), queue)
  /\ used.faults = 1
  /\ BagIn(Job("call", 1, 1, 1), queue)

\* The successful provider invocations of a stage for a lead.
Successful(stage, l) ==
  providerCalls[[stage |-> stage, lead |-> l, n |-> 1]]
    + providerCalls[[stage |-> stage, lead |-> l, n |-> 2]]

\* C35: for every lead, the number of EMAIL_SENT events is at most
\* emailSentCount, which is at most the number of successful sendEmail
\* invocations for the lead; the number of CALL_PLACED events is at most
\* callAttempts, which is at most the number of successful placeCall
\* invocations.
C35_EventsCountersProviderCalls ==
  \A l \in LeadIds :
    /\ Len(events[l]["EMAIL_SENT"]) <= leads[l].emailSentCount
    /\ leads[l].emailSentCount <= Successful("email", l)
    /\ Len(events[l]["CALL_PLACED"]) <= leads[l].callAttempts
    /\ leads[l].callAttempts <= Successful("call", l)

\* Two emails were sent, one was counted and none has its event: the lead
\* update threw after the first send and the event write after the second.
C35_Witness ==
  /\ Successful("email", 1) = 2
  /\ leads[1].emailSentCount = 1
  /\ Len(events[1]["EMAIL_SENT"]) = 0
  /\ active = EmptyBag

\* Every queue is empty and no invocation is in flight.
Quiescent == queue = EmptyBag /\ active = EmptyBag

\* C36: in every quiescent state, every lead with emailSentCount >= 1 has
\* an EMAIL_SENT event and a committed row for its Email key (the retries
\* of the queue have repaired a failure that followed the increment of the
\* counter).
C36_QuiescentEmailComplete ==
  Quiescent =>
    \A l \in LeadIds :
      leads[l].emailSentCount >= 1 =>
        /\ HasEvent(events[l], "EMAIL_SENT")
        /\ idem[[stage |-> "email", lead |-> l, n |-> 1]].hasValue

\* C37: a lead whose status is DO_NOT_CONTACT has doNotContact = true; the
\* status is set only by the call webhook, together with the flag.
C37_StatusImpliesFlag ==
  /\ [](\A l \in LeadIds :
          leads[l].status = "DO_NOT_CONTACT" => leads[l].doNotContact)
  /\ [][\A l \in LeadIds :
          (leads'[l].status = "DO_NOT_CONTACT"
             /\ leads[l].status # "DO_NOT_CONTACT") =>
            /\ leads'[l].doNotContact
            /\ \E t \in Transcripts : callWebhookHandler(l, t)]_vars

\* A webhook opted the lead out after its call was placed.
C37_Witness ==
  \E l \in LeadIds :
    /\ leads[l].status = "DO_NOT_CONTACT"
    /\ leads[l].doNotContact
    /\ leads[l].callAttempts = 1
    /\ HasEvent(events[l], "CALL_RESULT")

\* The statuses getCampaignMetricsHandler counts as live sites.
liveSiteStatuses ==
  {"DEPLOYED", "EMAILED_1", "CALLED_1", "REPLIED", "BOOKED",
   "DO_NOT_CONTACT"}

\* prisma.lead.count of the leads with a live-site status.
liveSites == Cardinality({l \in Existing : leads[l].status \in liveSiteStatuses})

\* C38: every lead getCampaignMetricsHandler counts as a live site has a
\* demoUrl, the leads a webhook opted out included: liveSites is the
\* number of the counted leads with a demoUrl.
C38_LiveSitesHaveDemoUrl ==
  liveSites
    = Cardinality({l \in Existing : leads[l].status \in liveSiteStatuses
                                      /\ leads[l].demoUrl})

\* A regeneration request only adds the Enrich job, and the Enrich job of a
\* lead whose doNotContact is true completes without a write to the ledger
\* and without an enqueue.
RegenerationOfOptedOut ==
  /\ [][\A l \in LeadIds :
          regenerateLeadDemoHandler(l) =>
            /\ queue' = queue (+) One(Job("enrich", l, 0, 0))
            /\ UNCHANGED <<leads, events, idem, failed, active,
                           providerCalls>>]_vars
  /\ [][\A job \in BagToSet(queue) :
          (/\ job.q = "enrich"
           /\ leads[job.lead].exists
           /\ leads[job.lead].doNotContact
           /\ CopiesIn(job, queue') < CopiesIn(job, queue))
            => /\ queue' = queue (-) One(job)
               /\ UNCHANGED <<leads, events, idem, failed, active,
                              providerCalls>>]_vars

\* With regeneration requests as the only cause of repeated jobs (no
\* duplicate delivery, no throwing operation), the step-1 email is sent
\* and the attempt-1 call is placed at most once per lead.
RegenerationWithoutThrow ==
  /\ []((used.faults = 0 /\ used.redeliver = 0) =>
          \A l \in LeadIds :
            /\ providerCalls[[stage |-> "email", lead |-> l, n |-> 1]] <= 1
            /\ providerCalls[[stage |-> "call", lead |-> l, n |-> 1]] <= 1
            /\ leads[l].emailSentCount <= 1
            /\ leads[l].callAttempts <= 1)
  /\ RegenerationOfOptedOut

\* C39: a regeneration request never causes a second step-1 email or a
\* second attempt-1 call for a lead that already received them: with no
\* duplicate delivery, a job that is not a retry (the job a regenerated
\* Deploy or Email enqueued) never has the provider invoked for a key the
\* provider was invoked for before; and for a lead whose doNotContact is
\* true the request changes nothing in the ledger and enqueues no job
\* beyond the Enrich job.
C39_RegenerationNeverRepeats ==
  /\ [][\A a \in BagToSet(active) :
          (/\ used.redeliver = 0
           /\ a.job.tries = 0
           /\ CallProvider(a))
            => providerCalls[idemKey(a.job)] = 0]_vars
  /\ RegenerationOfOptedOut

\* The seven queues in the order of the stages.
QueueOrder == <<"scrape", "enrich", "site", "image", "deploy", "email", "call">>

QueueRank(q) == CHOOSE i \in 1..Len(QueueOrder) : QueueOrder[i] = q

\* A job of queue q is added in this step by a handler of an earlier stage:
\* the handler of a job that leaves its queue, or an invocation in flight.
AddedByEarlierStage(q) ==
  \/ \E job \in BagToSet(queue) :
       /\ CopiesIn(job, queue') < CopiesIn(job, queue)
       /\ QueueRank(job.q) < QueueRank(q)
  \/ \E a \in BagToSet(active) :
       /\ Leaves(a)
       /\ QueueRank(a.job.q) < QueueRank(q)

\* C40: the pipeline of one campaign terminates: with no webhook, no
\* regeneration and no second Scrape, whatever throws and however often,
\* the system comes to rest with every queue empty and nothing in flight;
\* a handler adds jobs to later stages' queues only; no job waits for a
\* fourth attempt; and a job that failed its third attempt is kept as
\* failed for good.
C40_PipelineTerminates ==
  /\ <>[]Quiescent
  /\ [][\A q \in {"enrich", "site", "image", "deploy", "email", "call"} :
          \A l \in LeadIds : \A n \in {0, 1, 2} :
            CopiesIn(Job(q, l, n, 0), queue') > CopiesIn(Job(q, l, n, 0), queue)
              => AddedByEarlierStage(q)]_vars
  /\ [](\A job \in BagToSet(queue) : job.tries < attempts)
  /\ [](\A job \in BagToSet(failed) : job.tries = attempts)
  /\ [][\A job \in BagToSet(failed) :
          CopiesIn(job, failed') >= CopiesIn(job, failed)]_vars

\* The pipeline is at rest: the Deploy job failed its three attempts and is
\* kept as failed, the lead stays IMAGES_READY.
C40_Witness ==
  /\ Quiescent
  /\ failed = One(Job("deploy", 1, 0, attempts))
  /\ leads[1].status = "IMAGES_READY"

====
